---- MODULE Spec2Model ----
(***************************************************************************)
(* Model of the geofeeds radiation service: the device-event store         *)
(* (radEvents, guarded by radLock and persisted to rad.json), the          *)
(* ingestion handler httpRadnoteHandler, the query handler                 *)
(* httpRadiationHandler with the region aggregator generateJsonFeed, the   *)
(* great-circle distance metersApart and the geofence evaluator            *)
(* locationInWarningRegion.                                                *)
(*                                                                         *)
(* Numbers: occurredAt (note.Event.When) is an integer.  Coordinates, dose *)
(* rates, radii, distances, the count and the sums of the aggregator and   *)
(* the configured threshold and region are float64 values, and every       *)
(* operation on them (+ - * / sqrt, the comparisons, math.Sin, math.Cos    *)
(* and math.Asin) is computed bit for bit as the program computes it.      *)
(*                                                                         *)
(* Every handler is a sequence of steps, one per Lock and one per Unlock   *)
(* of the mutex: a step that takes the lock runs the critical section, a   *)
(* step that releases it runs the handler on to its next Lock or to its    *)
(* return.  The critical section of an accepted update is three steps: the *)
(* assignment to the map, the truncation of the snapshot file and the      *)
(* write to it, since the process can be stopped between any two of them.  *)
(***************************************************************************)
EXTENDS Integers, Sequences, FiniteSets, TLC

VARIABLES
    radEvents,  \* the in-memory mapping: Nil before the first load, else [device -> record]
    file,       \* the snapshot file configDataDirectory+radFile
    radLock,    \* 0 when unlocked, else the worker holding the mutex
    config,     \* the package-level configuration values
    pc,         \* per worker: where its handler stands
    req,        \* per worker: the request being handled (kept after the response)
    local,      \* per worker: the handler's local variables
    resp,       \* per worker: the response written so far
    seen,       \* history: per device the largest occurredAt received, -1 if none
    nreads,     \* history: number of os.ReadFile calls on the snapshot
    nwrites,    \* history: per worker, os.WriteFile calls made by its current request
    printed     \* the lines the latest step printed to the console, in order

vars ==
    <<radEvents, file, radLock, config, pc, req, local, resp, seen, nreads, nwrites, printed>>

----------------------------------------------------------------------------
(* Bounds and input sets *)

\* Largest occurredAt an envelope carries.
MaxWhen == 2

\* The two concurrently scheduled request workers.
Procs == {1, 2}

Devices == {"dev:a", "dev:b"}

\* Devices of the stores the scans are evaluated over.
ScanDevices == {"dev:a", "dev:b", "dev:c"}

\* The fields of a device record, flattened from RadEvent{Event{when,best_lat,best_lon}, usv}.
\* (Event.DeviceUID repeats the map key and Event.NotefileID is "_air.qo" in every
\* stored record; no code reads either from a stored record.)
Fields == {"when", "best_lat", "best_lon", "usv"}

\* A line printed with fmt.Printf: the format and the values it is given.
Line(text, args) == [text |-> text, args |-> args]

----------------------------------------------------------------------------
(* float64 arithmetic: a finite value is (-1)^neg * (hi * 2^27 + lo) * 2^e *)
(* with a significand of at most 53 bits kept in two limbs; it has 53 bits *)
(* unless the value is subnormal (e = -1074) or 0 (every field 0).  Every  *)
(* operation rounds to nearest, ties to even, as IEEE 754 does.  A value   *)
(* of some size that is used more than once is named with Bind.            *)

LimbBits == 26 + 1

Limb == 2 ^ LimbBits

\* The exponent of the last place of the subnormal numbers, and of the largest
\* finite numbers.
MinExp == 0 - 1074

MaxExp == 971

F64(neg, e, hi, lo) == [cls |-> "fin", neg |-> neg, e |-> e, hi |-> hi, lo |-> lo]

F64Zero == F64(FALSE, 0, 0, 0)

NaN == [cls |-> "nan", neg |-> FALSE, e |-> 0, hi |-> 0, lo |-> 0]

Inf(neg) == [cls |-> "inf", neg |-> neg, e |-> 0, hi |-> 0, lo |-> 0]

IsNaN(x) == x.cls = "nan"

IsInf(x) == x.cls = "inf"

IsZero(x) == x.cls = "fin" /\ x.hi = 0 /\ x.lo = 0

F64Neg(x) == IF IsNaN(x) THEN x ELSE [x EXCEPT !.neg = ~@]

F64Abs(x) == IF IsNaN(x) THEN x ELSE [x EXCEPT !.neg = FALSE]

\* f[x] for the one x in the domain of f: Bind([x \in {e} |-> b]) is b with
\* x naming the value of e, which is computed before b.
Bind(f) == f[CHOOSE x \in DOMAIN f : TRUE]

\* The number of bits of n.
BitLen(n) == CHOOSE k \in 0 .. 31 : (k = 31 \/ n < 2 ^ k) /\ (k = 0 \/ n >= 2 ^ (k - 1))

\* The two limbs with the overflow of the low one carried into the high one.
Carry(hi, lo) == <<hi + lo \div Limb, lo % Limb>>

\* The two limbs shifted left by k bits.
ShiftLeft(hi, lo, k) ==
    IF k < LimbBits
    THEN <<hi * 2 ^ k + lo \div 2 ^ (LimbBits - k), (lo % 2 ^ (LimbBits - k)) * 2 ^ k>>
    ELSE <<lo * 2 ^ (k - LimbBits), 0>>

\* The two limbs shifted right by k bits, the bits shifted out dropped.
ShiftRight(hi, lo, k) ==
    IF k < LimbBits
    THEN <<hi \div 2 ^ k, (hi % 2 ^ k) * 2 ^ (LimbBits - k) + lo \div 2 ^ k>>
    ELSE IF k < 2 * LimbBits + 4 THEN Carry(0, hi \div 2 ^ (k - LimbBits))
    ELSE <<0, 0>>

\* The two limbs shifted right by k bits; the lowest bit is set when a 1 was
\* shifted out (the sticky bit).
ShiftRightSticky(hi, lo, k) ==
    Bind([q \in {ShiftRight(hi, lo, k)} |->
         IF /\ IF k < LimbBits THEN lo % 2 ^ k # 0
               ELSE IF k < 2 * LimbBits + 4 THEN lo # 0 \/ hi % 2 ^ (k - LimbBits) # 0
               ELSE lo # 0 \/ hi # 0
            /\ q[2] % 2 = 0
         THEN <<q[1], q[2] + 1>> ELSE q])

\* A significand with two extra low bits (a round bit and a sticky bit)
\* rounded to nearest, ties to even.
RoundToEven(hi, lo) ==
    Bind([q \in {ShiftRight(hi, lo, 2)} |->
         IF lo % 4 > 2 \/ (lo % 4 = 2 /\ q[2] % 2 = 1) THEN Carry(q[1], q[2] + 1) ELSE q])

\* The float64 nearest to (-1)^neg * (hi * 2^27 + lo) * 2^e, where the lowest
\* bit of a significand of more than 54 bits may be a sticky bit: n is the
\* number of bits of the significand and s the number of bits to drop.
F64Round(neg, hi, lo, e) ==
    Bind([n \in {IF hi > 0 THEN LimbBits + BitLen(hi) ELSE BitLen(lo)} |->
    Bind([s \in {IF n - 53 >= MinExp - e THEN n - 53 ELSE MinExp - e} |->
         IF n = 0 THEN F64(neg, 0, 0, 0)
         ELSE Bind([q \in {IF s <= 0 THEN ShiftLeft(hi, lo, 0 - s)
                           ELSE Bind([w \in {IF s = 1 THEN ShiftLeft(hi, lo, 1)
                                             ELSE ShiftRightSticky(hi, lo, s - 2)} |->
                                     RoundToEven(w[1], w[2])])} |->
                   IF q = <<0, 0>> THEN F64(neg, 0, 0, 0)
                   ELSE Bind([r \in {IF q[1] = 2 ^ (LimbBits - 1)
                                     THEN <<e + s + 1, 2 ^ (LimbBits - 2), 0>>
                                     ELSE <<e + s, q[1], q[2]>>} |->
                             IF r[1] > MaxExp THEN Inf(neg) ELSE F64(neg, r[1], r[2], r[3])])])])])

\* A finite value other than 0 with its significand shifted up to 53 bits (the
\* exponent may then lie below MinExp).
Normal(x) ==
    Bind([k \in {53 - (IF x.hi > 0 THEN LimbBits + BitLen(x.hi) ELSE BitLen(x.lo))} |->
         LET m == ShiftLeft(x.hi, x.lo, k)
         IN  [x EXCEPT !.e = @ - k, !.hi = m[1], !.lo = m[2]]])

\* float64(n) for an integer n
F64FromInt(n) ==
    LET m == IF n < 0 THEN 0 - n ELSE n
    IN  F64Round(n < 0, m \div Limb, m % Limb, 0)

\* uint64(x) for 0 <= x < 2^31: the integer part.
F64ToInt(x) ==
    Bind([m \in {IF x.e >= 0 THEN ShiftLeft(x.hi, x.lo, x.e)
                 ELSE ShiftRight(x.hi, x.lo, 0 - x.e)} |->
         m[1] * Limb + m[2]])

\* |a| < |b| for finite a and b
MagLess(a, b) ==
    IF IsZero(a) THEN ~IsZero(b)
    ELSE IF IsZero(b) THEN FALSE
    ELSE \/ a.e < b.e
         \/ a.e = b.e /\ a.hi < b.hi
         \/ a.e = b.e /\ a.hi = b.hi /\ a.lo < b.lo

\* a == b: NaN equals nothing, 0 equals -0
F64Eq(a, b) ==
    /\ ~IsNaN(a) /\ ~IsNaN(b)
    /\ (IsZero(a) /\ IsZero(b)) \/ a = b

\* a < b
F64Less(a, b) ==
    IF IsNaN(a) \/ IsNaN(b) \/ F64Eq(a, b) THEN FALSE
    ELSE IF IsZero(a) THEN ~b.neg
    ELSE IF IsZero(b) THEN a.neg
    ELSE IF a.neg # b.neg THEN a.neg
    ELSE a.neg # (IF IsInf(a) THEN FALSE ELSE IF IsInf(b) THEN TRUE ELSE MagLess(a, b))

\* a <= b
F64LessEq(a, b) == F64Less(a, b) \/ F64Eq(a, b)

\* a - b for pairs of limbs, a >= b
LimbsSub(a, b) == IF a[2] >= b[2] THEN <<a[1] - b[1], a[2] - b[2]>>
                  ELSE <<a[1] - b[1] - 1, a[2] + Limb - b[2]>>

\* a + b: o[1] is the operand of the larger magnitude and o[2] the other, m
\* their two significands aligned with three extra low bits, S the sum or
\* the difference of these.
F64Add(a, b) ==
    IF IsNaN(a) \/ IsNaN(b) THEN NaN
    ELSE IF IsInf(a) THEN (IF IsInf(b) /\ a.neg # b.neg THEN NaN ELSE a)
    ELSE IF IsInf(b) THEN b
    ELSE IF IsZero(a) THEN (IF IsZero(b) THEN F64(a.neg /\ b.neg, 0, 0, 0) ELSE b)
    ELSE IF IsZero(b) THEN a
    ELSE Bind([o \in {IF MagLess(a, b) THEN <<b, a>> ELSE <<a, b>>} |->
         Bind([S \in {Bind([m \in {<<ShiftLeft(o[1].hi, o[1].lo, 3),
                                    IF o[1].e - o[2].e <= 3
                                    THEN ShiftLeft(o[2].hi, o[2].lo, 3 - (o[1].e - o[2].e))
                                    ELSE ShiftRightSticky(o[2].hi, o[2].lo,
                                                          o[1].e - o[2].e - 3)>>} |->
                           IF o[1].neg = o[2].neg
                           THEN Carry(m[1][1] + m[2][1], m[1][2] + m[2][2])
                           ELSE LimbsSub(m[1], m[2])])} |->
              IF S = <<0, 0>> THEN F64Zero
              ELSE F64Round(o[1].neg, S[1], S[2], o[1].e - 3)])])

\* a - b
F64Sub(a, b) == F64Add(a, F64Neg(b))

\* The product of two limbs, as two limbs.
MulLimb(a, b) ==
    LET h   == 2 ^ 14
        mid == (a \div h) * (b % h) + (a % h) * (b \div h)
        low == (a % h) * (b % h) + (mid % 2 ^ 13) * h
    IN  <<2 * ((a \div h) * (b \div h)) + mid \div 2 ^ 13 + low \div Limb, low % Limb>>

\* a * b: the four products ll, lh, hl and hh of the limbs of the two
\* significands, added up by columns into the limbs p3 p2 p1 and the lowest,
\* ll[2], of which the upper 54 bits and a sticky bit are rounded.
F64Mul(a, b) ==
    IF IsNaN(a) \/ IsNaN(b) THEN NaN
    ELSE IF IsInf(a) \/ IsInf(b)
    THEN (IF IsZero(a) \/ IsZero(b) THEN NaN ELSE Inf(a.neg # b.neg))
    ELSE IF IsZero(a) \/ IsZero(b) THEN F64(a.neg # b.neg, 0, 0, 0)
    ELSE Bind([x \in {Normal(a)} |->
         Bind([y \in {Normal(b)} |->
         Bind([m \in {<<MulLimb(x.lo, y.lo), MulLimb(x.lo, y.hi),
                        MulLimb(x.hi, y.lo), MulLimb(x.hi, y.hi)>>} |->
              LET ll == m[1]
                  lh == m[2]
                  hl == m[3]
                  hh == m[4]
                  c1 == ll[1] + lh[2] + hl[2]
                  c2 == lh[1] + hl[1] + hh[2] + c1 \div Limb
                  p3 == hh[1] + c2 \div Limb
                  p2 == c2 % Limb
                  p1 == c1 % Limb
                  t  == 2 ^ 23
                  vl == (p2 % t) * 16 + p1 \div t
              IN  F64Round(a.neg # b.neg, p3 * 16 + p2 \div t,
                           IF (p1 % t # 0 \/ ll[2] # 0) /\ vl % 2 = 0 THEN vl + 1 ELSE vl,
                           x.e + y.e + 50)])])])

\* d * (hi * 2^27 + lo) for a digit d < 16, as two limbs.
MulDigit(d, hi, lo) == Carry(d * hi, d * lo)

\* a <= b for pairs of limbs
LimbsLessEq(a, b) == a[1] < b[1] \/ (a[1] = b[1] /\ a[2] <= b[2])

\* One step of the long division of r by y in base 16: s is the remainder r
\* and the digits q so far, as <<r, q>>.
DivStep(s, y) ==
    LET rest == Carry(16 * s[1][1], 16 * s[1][2])
    IN  Bind([d \in {CHOOSE c \in 0 .. 15 :
                         /\ LimbsLessEq(MulDigit(c, y[1], y[2]), rest)
                         /\ c = 15 \/ ~LimbsLessEq(MulDigit(c + 1, y[1], y[2]), rest)} |->
             <<LimbsSub(rest, MulDigit(d, y[1], y[2])),
               Carry(16 * s[2][1], 16 * s[2][2] + d)>>])

\* n steps of the long division from s, seven at a time and one after the
\* other.
RECURSIVE DivSteps(_, _, _)
DivSteps(s, y, n) ==
    IF n = 0 THEN s
    ELSE Bind([t \in {DivSteps(s, y, n - 7)} |->
              LET s1 == DivStep(t, y)
                  s2 == DivStep(s1, y)
                  s3 == DivStep(s2, y)
                  s4 == DivStep(s3, y)
                  s5 == DivStep(s4, y)
                  s6 == DivStep(s5, y)
                  s7 == DivStep(s6, y)
              IN  <<s1, s2, s3, s4, s5, s6, s7>>[7]])

\* a / b: when neither is 0, an infinity or NaN, the first digit and fourteen
\* steps of the long division, and the rounding of the quotient with a sticky
\* bit for the remainder.
F64Quo(a, b) ==
    IF IsNaN(a) \/ IsNaN(b) THEN NaN
    ELSE IF IsInf(a) THEN (IF IsInf(b) THEN NaN ELSE Inf(a.neg # b.neg))
    ELSE IF IsInf(b) THEN F64(a.neg # b.neg, 0, 0, 0)
    ELSE IF IsZero(b) THEN (IF IsZero(a) THEN NaN ELSE Inf(a.neg # b.neg))
    ELSE IF IsZero(a) THEN F64(a.neg # b.neg, 0, 0, 0)
    ELSE Bind([x \in {Normal(a)} |->
         Bind([y \in {Normal(b)} |->
         Bind([q \in {LET X == <<x.hi, x.lo>>
                          Y == <<y.hi, y.lo>>
                      IN  DivSteps(IF LimbsLessEq(Y, X) THEN <<LimbsSub(X, Y), <<0, 1>>>>
                                   ELSE <<X, <<0, 0>>>>, Y, 14)} |->
              LET v == Carry(2 * q[2][1], 2 * q[2][2] + (IF q[1] # <<0, 0>> THEN 1 ELSE 0))
              IN  F64Round(a.neg # b.neg, v[1], v[2], x.e - y.e - 57)])])])

\* (8 * q + d) * d, as two limbs
SqrtTerm(q, d) ==
    LET t == Carry(8 * q[1], 8 * q[2] + d)
    IN  MulDigit(d, t[1], t[2])

\* One step of the square root of m * 2^56 in base 4: s is the remainder r and
\* the digits q so far, as <<r, q>>; group is the next four bits of m * 2^56.
SqrtStep(s, group) ==
    LET rest == Carry(16 * s[1][1], 16 * s[1][2] + group)
    IN  Bind([d \in {CHOOSE c \in 0 .. 3 :
                         /\ LimbsLessEq(SqrtTerm(s[2], c), rest)
                         /\ c = 3 \/ ~LimbsLessEq(SqrtTerm(s[2], c + 1), rest)} |->
             <<LimbsSub(rest, SqrtTerm(s[2], d)), Carry(4 * s[2][1], 4 * s[2][2] + d)>>])

\* The first n steps of the square root of m * 2^56, seven at a time and one
\* after the other: step i takes the i-th group of four bits of m from the
\* top, and 0 after the fourteenth.
RECURSIVE SqrtSteps(_, _)
SqrtSteps(m, n) ==
    IF n = 0 THEN <<<<0, 0>>, <<0, 0>>>>
    ELSE Bind([t \in {SqrtSteps(m, n - 7)} |->
              LET Group(i) == IF i <= 14 THEN ShiftRight(m[1], m[2], 56 - 4 * i)[2] % 16 ELSE 0
                  s1 == SqrtStep(t, Group(n - 6))
                  s2 == SqrtStep(s1, Group(n - 5))
                  s3 == SqrtStep(s2, Group(n - 4))
                  s4 == SqrtStep(s3, Group(n - 3))
                  s5 == SqrtStep(s4, Group(n - 2))
                  s6 == SqrtStep(s5, Group(n - 1))
                  s7 == SqrtStep(s6, Group(n))
              IN  <<s1, s2, s3, s4, s5, s6, s7>>[7]])

\* math.Sqrt(a): for a finite a > 0 the 28 steps of the square root of its
\* significand times 2^56, and the rounding with a sticky bit for the
\* remainder.
F64Sqrt(a) ==
    IF IsNaN(a) \/ IsZero(a) THEN a
    ELSE IF a.neg THEN NaN
    ELSE IF IsInf(a) THEN a
    ELSE Bind([x \in {Normal(a)} |->
         Bind([q \in {SqrtSteps(IF x.e % 2 = 0 THEN <<x.hi, x.lo>>
                                ELSE Carry(2 * x.hi, 2 * x.lo), 28)} |->
              LET v == Carry(2 * q[2][1], 2 * q[2][2] + (IF q[1] # <<0, 0>> THEN 1 ELSE 0))
              IN  F64Round(FALSE, v[1], v[2],
                           (IF x.e % 2 = 0 THEN x.e ELSE x.e - 1) \div 2 - 29)])])
----------------------------------------------------------------------------
(* The float64 constants of metersApart and of the math library, by their  *)
(* bits                                                                    *)

\* degreesToRadians = (3.1415926536 / 180), as a float64
DegreesToRadians == F64(FALSE, 0 - 58, 37480660, 38984977)

\* 4 / Pi, as a float64
FourOverPi == F64(FALSE, 0 - 52, 42722829, 97110147)

\* Pi/4 split into three parts: 0x3fe921fb40000000,
PI4A == F64(FALSE, 0 - 53, 52707176, 0)

\* 0x3e64442d00000000,
PI4B == F64(FALSE, 0 - 77, 42501536, 0)

\* and 0x3ce8469898cc5170
PI4C == F64(FALSE, 0 - 101, 50909971, 13390192)

\* the coefficients _sin[0] .. _sin[5]
SinCoef ==
    <<F64(FALSE, 0 - 85, 45817763, 131177677),
      F64(TRUE, 0 - 78, 56409269, 19472221),
      F64(FALSE, 0 - 71, 48479338, 108873889),
      F64(TRUE, 0 - 65, 54539267, 29351683),
      F64(FALSE, 0 - 59, 35791394, 17889232),
      F64(TRUE, 0 - 55, 44739242, 89478472)>>

\* the coefficients _cos[0] .. _cos[5]
CosCoef ==
    <<F64(TRUE, 0 - 89, 52382004, 8788635),
      F64(FALSE, 0 - 81, 37606319, 55459589),
      F64(TRUE, 0 - 74, 38783471, 111954886),
      F64(FALSE, 0 - 68, 54539267, 29902069),
      F64(TRUE, 0 - 62, 47721858, 113332113),
      F64(FALSE, 0 - 57, 44739242, 89478475)>>

\* the coefficients P0 .. P4 of xatan
AtanP ==
    <<F64(TRUE, 0 - 53, 58724340, 32974228),
      F64(TRUE, 0 - 48, 33884811, 57376890),
      F64(TRUE, 0 - 46, 39326086, 109576819),
      F64(TRUE, 0 - 46, 64428005, 84261413),
      F64(TRUE, 0 - 46, 34000191, 86568078)>>

\* the coefficients Q0 .. Q4 of xatan
AtanQ ==
    <<F64(FALSE, 0 - 48, 52131979, 51667004),
      F64(FALSE, 0 - 45, 43260840, 62454309),
      F64(FALSE, 0 - 44, 56738586, 48414267),
      F64(FALSE, 0 - 44, 63621090, 61884906),
      F64(FALSE, 0 - 45, 51000287, 62743276)>>

\* Pi/2, as a float64
PiOver2 == F64(FALSE, 0 - 52, 52707178, 71576856)

\* Morebits = 6.123233995736765886130e-17
Morebits == F64(FALSE, 0 - 106, 37012678, 51665927)

\* mPi4: the binary digits of 4/Pi, 1 and 1216 digits of the fraction, 16 to
\* a piece; a line is one uint64 of the table in math.
mPi4 ==
    <<\h0000, \h0000, \h0000, \h0001,
      \h45f3, \h06dc, \h9c88, \h2a53,
      \hf84e, \hafa3, \hea69, \hbb81,
      \hb6c5, \h2b32, \h7887, \h2083,
      \hfca2, \hc757, \hbd77, \h8ac3,
      \h6e48, \hdc74, \h849b, \ha5c0,
      \h0c92, \h5dd4, \h13a3, \h2439,
      \hfc3b, \hd639, \h6253, \h4e7d,
      \hd104, \h6bea, \h5d76, \h8909,
      \hd338, \he04d, \h68be, \hfc82,
      \h7323, \hac73, \h06a6, \h73e9,
      \h3908, \hbf17, \h7bf2, \h5076,
      \h3ff1, \h2fff, \hbc0b, \h301f,
      \hde5e, \h2316, \hb414, \hda3e,
      \hda6c, \hfd9e, \h4f96, \h136e,
      \h9e8c, \h7ecd, \h3cbf, \hd45a,
      \hea4f, \h758f, \hd7cb, \he2f6,
      \h7a0e, \h73ef, \h14a5, \h25d4,
      \hd7f6, \hbf62, \h3f1a, \hba10,
      \hac06, \h608d, \hf8f6, \hd757>>

----------------------------------------------------------------------------
(* math.Sin, math.Cos and math.Asin as the Go library computes them on    *)
(* amd64 (the Cephes polynomials, with no fused multiply-add), and         *)
(* metersApart                                                             *)


\* x * y + c
MulAdd(x, y, c) == F64Add(F64Mul(x, y), c)

\* ((a * z + c[1]) * z + c[2]) ... * z + c[Len(c)]: the polynomials of math,
\* one term after the other.
RECURSIVE Horner(_, _, _)
Horner(a, c, z) ==
    IF c = << >> THEN a
    ELSE Bind([b \in {MulAdd(a, z, Head(c))} |-> Horner(b, Tail(c), z)])

One == F64FromInt(1)

Half == F64(FALSE, 0 - 53, 2 ^ (LimbBits - 2), 0)

\* z + z*zz*((((((_sin[0]*zz)+_sin[1])*zz+_sin[2])*zz+_sin[3])*zz+_sin[4])*zz+_sin[5])
SinPoly(z, zz) ==
    Bind([p \in {Horner(SinCoef[1], Tail(SinCoef), zz)} |->
    Bind([b \in {F64Mul(F64Mul(z, zz), p)} |->
         F64Add(z, b)])])

\* 1.0 - 0.5*zz + zz*zz*((((((_cos[0]*zz)+_cos[1])*zz+_cos[2])*zz+_cos[3])*zz+_cos[4])*zz+_cos[5])
CosPoly(zz) ==
    Bind([p \in {Horner(CosCoef[1], Tail(CosCoef), zz)} |->
    Bind([b \in {F64Mul(F64Mul(zz, zz), p)} |->
    Bind([a \in {F64Sub(One, F64Mul(Half, zz))} |->
         F64Add(a, b)])])])

\* trigReduce(x) for x >= 2^29, the Payne-Hanek reduction of math: the octant
\* j and the remainder z of x by Pi/4, as <<j, z>>.  x = ix * 2^exp for the
\* 53-bit ix, and z0 z1 z2 are the 192 digits of mPi4 from digit exp + 61 on.
\* The product z0 z1 z2 * ix is multiplied out in base 256 (Z, X and Term are
\* the digits of the factors and their products, Step adds the column k to the
\* carry s[1] and appends the digit to s[2]); hi and lo are its digits 8 to
\* 23, of which Bit(i) is bit i.  The top 3 bits are j; lz is the number of
\* leading zeros of the 64 bits after them, MBit(u) is bit u of
\* (hi << (lz + 1)) | (lo >> (64 - (lz + 1))) for the hi shifted left by 3
\* and the lo as it was, and bits 12 to 63 of it are the fraction of the
\* float64 with the exponent -(lz + 1).
trigReduce(x) ==
    LET PiByte(n) == IF n % 16 <= 8
                     THEN (mPi4[n \div 16 + 1] \div 2 ^ (8 - (n % 16))) % 256
                     ELSE (mPi4[n \div 16 + 1] % 2 ^ (16 - (n % 16))) * 2 ^ ((n % 16) - 8)
                          + mPi4[n \div 16 + 2] \div 2 ^ (24 - (n % 16))
        Z(i) == PiByte(x.e + 61 + 8 * (23 - i))
        X(i) == ShiftRight(x.hi, x.lo, 8 * i)[2] % 256
        Term(k, i) == IF k - i \in 0 .. 23 THEN Z(k - i) * X(i) ELSE 0
    IN  Bind([column \in {[k \in 0 .. 23 |-> Term(k, 0) + Term(k, 1) + Term(k, 2) + Term(k, 3)
                                            + Term(k, 4) + Term(k, 5) + Term(k, 6)]} |->
        LET Step(s, k) == Bind([t \in {column[k] + s[1]} |->
                               <<t \div 256, Append(s[2], t % 256)>>])
            RECURSIVE Digits(_)
            Digits(k) == IF k = 0 THEN <<0, << >> >>
                         ELSE Bind([t \in {Digits(k - 8)} |->
                                   LET s1 == Step(t, k - 8)
                                       s2 == Step(s1, k - 7)
                                       s3 == Step(s2, k - 6)
                                       s4 == Step(s3, k - 5)
                                       s5 == Step(s4, k - 4)
                                       s6 == Step(s5, k - 3)
                                       s7 == Step(s6, k - 2)
                                       s8 == Step(s7, k - 1)
                                   IN  <<s1, s2, s3, s4, s5, s6, s7, s8>>[8]])
        IN  Bind([p \in {Digits(24)[2]} |->
            LET Bit(i) == (p[i \div 8 + 9] \div 2 ^ (i % 8)) % 2
            IN  Bind([lz \in {CHOOSE n \in 0 .. 64 :
                                 /\ n = 64 \/ Bit(124 - n) = 1
                                 /\ \A i \in 0 .. n - 1 : Bit(124 - i) = 0} |->
                LET MBit(u) == IF lz = 64 THEN 0
                               ELSE IF u > lz THEN Bit(u - lz + 60) ELSE Bit(u + 63 - lz)
                    RECURSIVE Bits(_, _)
                    Bits(u, n) == IF n = 1 THEN MBit(u)
                                  ELSE Bits(u, n \div 2)
                                       + 2 ^ (n \div 2) * Bits(u + n \div 2, n - n \div 2)
                IN  Bind([z \in {F64(FALSE, 0 - lz - 53, 2 ^ 25 + Bits(39, 25), Bits(12, 27))} |->
                         IF (p[24] \div 32) % 2 = 1
                         THEN <<(p[24] \div 32 + 1) % 8,
                                F64Mul(F64Sub(z, One), F64Mul(Half, PiOver2))>>
                         ELSE <<p[24] \div 32, F64Mul(z, F64Mul(Half, PiOver2))>>])])])])

\* The argument reduction of sin and cos for x >= 0: the octant j and the
\* remainder z, as <<j, z>>; by trigReduce from reduceThreshold = 1 << 29 on,
\* below it by Cody-Waite.
Reduce(x) ==
    IF F64LessEq(F64FromInt(2 ^ 29), x) THEN trigReduce(x)
    ELSE
    Bind([j0 \in {F64ToInt(F64Mul(x, FourOverPi))} |->
    Bind([j \in {IF j0 % 2 = 1 THEN j0 + 1 ELSE j0} |->
    Bind([y \in {F64FromInt(j)} |->
    Bind([z1 \in {F64Sub(x, F64Mul(y, PI4A))} |->
    Bind([z2 \in {F64Sub(z1, F64Mul(y, PI4B))} |->
         <<j % 8, F64Sub(z2, F64Mul(y, PI4C))>>])])])])])

\* math.Sin(x)
Sin(x) ==
    IF IsNaN(x) \/ IsZero(x) THEN x
    ELSE IF IsInf(x) THEN NaN
    ELSE Bind([r \in {Reduce(F64Abs(x))} |->
         Bind([j \in {IF r[1] > 3 THEN r[1] - 4 ELSE r[1]} |->
         Bind([zz \in {F64Mul(r[2], r[2])} |->
         Bind([y \in {IF j = 1 \/ j = 2 THEN CosPoly(zz) ELSE SinPoly(r[2], zz)} |->
              IF x.neg # (r[1] > 3) THEN F64Neg(y) ELSE y])])])])

\* math.Cos(x)
Cos(x) ==
    IF IsNaN(x) \/ IsInf(x) THEN NaN
    ELSE Bind([r \in {Reduce(F64Abs(x))} |->
         Bind([j \in {IF r[1] > 3 THEN r[1] - 4 ELSE r[1]} |->
         Bind([zz \in {F64Mul(r[2], r[2])} |->
         Bind([y \in {IF j = 1 \/ j = 2 THEN SinPoly(r[2], zz) ELSE CosPoly(zz)} |->
              IF (r[1] > 3) # (j > 1) THEN F64Neg(y) ELSE y])])])])

\* xatan(x): the arc tangent of x for x in [0, 0.66], x * (z * P(z) / Q(z)) + x
\* for z = x * x, P of the coefficients P0 .. P4 and Q of 1, Q0 .. Q4
xatan(x) ==
    Bind([z \in {F64Mul(x, x)} |->
    Bind([n \in {Bind([p \in {Horner(AtanP[1], Tail(AtanP), z)} |-> F64Mul(z, p)])} |->
    Bind([d \in {Bind([q \in {F64Add(z, AtanQ[1])} |-> Horner(q, Tail(AtanQ), z)])} |->
    Bind([w \in {F64Quo(n, d)} |->
    Bind([v \in {F64Mul(x, w)} |->
         F64Add(v, x)])])])])])

\* satan(x): the arc tangent of x >= 0, reduced to the range of xatan
satan(x) ==
    IF F64LessEq(x, F64(FALSE, 0 - 53, 44291850, 32212255)) THEN xatan(x)      \* 0.66
    ELSE IF F64Less(F64(FALSE, 0 - 51, 40503782, 54500838), x)                 \* Tan3pio8
    THEN Bind([a \in {Bind([i \in {F64Quo(One, x)} |-> xatan(i)])} |->
         Bind([b \in {F64Sub(PiOver2, a)} |->
              F64Add(b, Morebits)])])
    ELSE Bind([a \in {Bind([i \in {Bind([n \in {F64Sub(x, One)} |->
                                        Bind([d \in {F64Add(x, One)} |->
                                             F64Quo(n, d)])])} |->
                           xatan(i)])} |->
         Bind([b \in {F64Add(F64Mul(Half, PiOver2), a)} |->
              F64Add(b, F64Mul(Half, Morebits))])])

\* math.Asin(x)
Asin(x) ==
    IF F64Eq(x, F64Zero) THEN x
    ELSE Bind([u \in {IF F64Less(x, F64Zero) THEN F64Neg(x) ELSE x} |->
         IF F64Less(One, u) THEN NaN
         ELSE Bind([a \in {Bind([temp \in {Bind([s \in {F64Mul(u, u)} |->
                                                Bind([d \in {F64Sub(One, s)} |->
                                                     F64Sqrt(d)])])} |->
                                Bind([i \in {IF F64Less(F64(FALSE, 0 - 53, 46976204, 107374182), u)
                                             THEN F64Quo(temp, u)                      \* x > 0.7
                                             ELSE F64Quo(u, temp)} |->
                                     satan(i)])])} |->
              Bind([t \in {IF F64Less(F64(FALSE, 0 - 53, 46976204, 107374182), u)
                           THEN F64Sub(PiOver2, a) ELSE a} |->
                   IF F64Less(x, F64Zero) THEN F64Neg(t) ELSE t])])])

\* const R = 6371 (kilometers)
R == 6371

\* metersApart(lat1, lon1, lat2, lon2): the chord between the two points on
\* the unit sphere (its square is sq), turned into an arc and scaled by the
\* Earth radius; the distance in meters.  rlon, rla1 and rla2 are lon1, lat1
\* and lat2 after their assignments.
metersApart(lat1, lon1, lat2, lon2) ==
    Bind([half \in
        {Bind([sq \in
             {Bind([rlon \in {F64Mul(F64Sub(lon1, lon2), DegreesToRadians)} |->
              Bind([rla1 \in {F64Mul(lat1, DegreesToRadians)} |->
              Bind([rla2 \in {F64Mul(lat2, DegreesToRadians)} |->
              Bind([c1 \in {Cos(rla1)} |->
              Bind([dz \in {Bind([s1 \in {Sin(rla1)} |->
                            Bind([s2 \in {Sin(rla2)} |-> F64Sub(s1, s2)])])} |->
              Bind([dx \in {Bind([c0 \in {Cos(rlon)} |->
                            Bind([cc \in {F64Mul(c0, c1)} |->
                            Bind([c2 \in {Cos(rla2)} |-> F64Sub(cc, c2)])])])} |->
              Bind([dy \in {Bind([s0 \in {Sin(rlon)} |-> F64Mul(s0, c1)])} |->
              Bind([xx \in {F64Mul(dx, dx)} |->
              Bind([xy \in {F64Add(xx, F64Mul(dy, dy))} |->
                   F64Add(xy, F64Mul(dz, dz))])])])])])])])])])} |->
         Bind([root \in {F64Sqrt(F64Abs(sq))} |->
              F64Quo(root, F64FromInt(2))])])} |->
    Bind([as \in {Asin(half)} |->
    Bind([a2 \in {F64Mul(as, F64FromInt(2))} |->
    Bind([km \in {F64Mul(a2, F64FromInt(R))} |->
         F64Mul(F64FromInt(1000), km)])])])])
----------------------------------------------------------------------------
(* Distances between the points in use *)

\* The whole-degree locations of the records of the specifications below, and
\* the points of their queries, one of which has the latitude "NaN".
TablePoints == {<<F64FromInt(a), F64FromInt(b)>> : a \in {0, 1}, b \in {0, 1}}

\* metersApart from those locations to those points, evaluated once.
Distances ==
    [x \in TablePoints \X (TablePoints \cup {<<NaN, F64FromInt(1)>>}) |->
        metersApart(x[1][1], x[1][2], x[2][1], x[2][2])] @@ << >>

\* The call metersApart(e.Event.BestLat, e.Event.BestLon, lat, lon) of the scans.
DistanceTo(e, lat, lon) ==
    Bind([k \in {<<<<e.best_lat, e.best_lon>>, <<lat, lon>>>>} |->
    Bind([t \in {Distances} |->
         IF k \in DOMAIN t THEN t[k] ELSE metersApart(k[1][1], k[1][2], k[2][1], k[2][2])])])

----------------------------------------------------------------------------
(* Records, JSON and the snapshot file *)

EmptyMap == [d \in {} |-> 0]

\* The record httpRadnoteHandler builds from an envelope: the event with its
\* body removed, and the dose rate taken from the body (0 without a body).
RadEvent(event) ==
    [when     |-> event.when,
     best_lat |-> event.best_lat,
     best_lon |-> event.best_lon,
     usv      |-> IF event.hasBody THEN event.usv ELSE F64Zero]

\* omitempty: the value of a field is left out when it is 0.
IsEmptyValue(f, v) == IF f = "when" THEN v = 0 ELSE F64Eq(v, F64Zero)

\* Mutant: the dose rate is not serialised.
ToJSONWithoutDose(rec) ==
    [f \in {g \in Fields \ {"usv"} : ~IsEmptyValue(g, rec[g])} |-> rec[f]]

\* json.Marshal of one record: every field is tagged omitempty, so a field
\* holding 0 is left out; a number is written with the digits that read back
\* as the same float64.
ToJSON(rec) == [f \in {g \in Fields : ~IsEmptyValue(g, rec[g])} |-> rec[f]]

\* Decoding one JSON object into a fresh record: absent fields stay 0.
FromJSON(obj) ==
    [f \in Fields |-> IF f \in DOMAIN obj THEN obj[f]
                      ELSE IF f = "when" THEN 0 ELSE F64Zero]

\* json.Marshal(radEvents)
Marshal(events) == [d \in DOMAIN events |-> ToJSON(events[d])]

\* note.JSONUnmarshal(contents, &radEvents) on a complete snapshot
Unmarshal(entries) == [d \in DOMAIN entries |-> FromJSON(entries[d])]

\* var radFile = "rad.json", and var radnoteFile = "radnote.json" of the
\* earlier handler: the name of the snapshot file, which the handlers print.
radFile == "rad.json"

radnoteFile == "radnote.json"

\* The snapshot file is written by this program only, so it is missing, a
\* complete snapshot ("json"), or what os.WriteFile leaves between its
\* truncation of the file and the end of a complete write ("torn": empty or
\* cut short, so not a JSON value).
MissingFile == [kind |-> "missing", entries |-> EmptyMap]

TornFile == [kind |-> "torn", entries |-> EmptyMap]

JSONFile(entries) == [kind |-> "json", entries |-> entries]

\* Mutant: the empty map is assigned only once the file has been decoded.
LoadFileNilOnFailure(f, name) ==
    IF f.kind = "json"
    THEN [events |-> [nil |-> FALSE, m |-> Unmarshal(f.entries)], printed |-> << >>]
    ELSE [events |-> [nil |-> TRUE, m |-> EmptyMap],
          printed |-> IF f.kind = "torn"
                      THEN <<Line("radnote: can't load %s: %s\n", <<name>>)>>
                      ELSE << >>]

\* The first-time load: radEvents becomes an empty map, then os.ReadFile and,
\* if the file was read, note.JSONUnmarshal into the map; a decoding error is
\* printed with the name of the file.  What radEvents holds afterwards, and
\* what is printed.
LoadFile(f, name) ==
    IF f.kind = "json"
    THEN [events |-> [nil |-> FALSE, m |-> Unmarshal(f.entries)], printed |-> << >>]
    ELSE [events |-> [nil |-> FALSE, m |-> EmptyMap],
          printed |-> IF f.kind = "torn"
                      THEN <<Line("radnote: can't load %s: %s\n", <<name>>)>>
                      ELSE << >>]

----------------------------------------------------------------------------
(* The store update of httpRadnoteHandler *)

\* Mutant: the timestamps are not compared, the latest arrival wins.
ReplacesAlways(events, event) == TRUE

\* Mutant: the comparison is inverted.
ReplacesOlder(events, event) ==
    \/ event.device \notin DOMAIN events
    \/ event.when <= events[event.device].when

\* Mutant: only a strictly newer envelope replaces the stored record.
ReplacesNewer(events, event) ==
    \/ event.device \notin DOMAIN events
    \/ event.when > events[event.device].when

\* The condition under which an envelope replaces the stored record.
Replaces(events, event) ==
    \/ event.device \notin DOMAIN events
    \/ event.when >= events[event.device].when

\* Mutant: the new record is stored under every key of the map.
PutEverywhere(events, d, rec) == [x \in DOMAIN events \cup {d} |-> rec]

\* Mutant: the map is rebuilt with the new record alone.
PutAlone(events, d, rec) == [x \in {d} |-> rec]

\* radEvents[event.DeviceUID] = radevent
Put(events, d, rec) == [x \in DOMAIN events \cup {d} |-> IF x = d THEN rec ELSE events[x]]

\* Mutant: the map is marshalled before the new record is put into it.
StoreUpdateStaleSnapshot(events, event) ==
    IF Replaces(events, event)
    THEN [events |-> Put(events, event.device, RadEvent(event)),
          eventJSON |-> Marshal(events), accepted |-> TRUE]
    ELSE [events |-> events, eventJSON |-> EmptyMap, accepted |-> FALSE]

\* Mutant: the dose rate of the stored record is added to the new one.
StoreUpdateAccumulating(events, event) ==
    IF Replaces(events, event)
    THEN LET rec == RadEvent(event)
             sum == IF event.device \in DOMAIN events
                    THEN [rec EXCEPT !.usv = F64Add(@, events[event.device].usv)]
                    ELSE rec
             m == Put(events, event.device, sum)
         IN  [events |-> m, eventJSON |-> Marshal(m), accepted |-> TRUE]
    ELSE [events |-> events, eventJSON |-> EmptyMap, accepted |-> FALSE]

\* httpRadnoteHandler from the lock to json.Marshal: if the envelope replaces
\* the stored record, the map is updated and marshalled whole; the map, the
\* bytes to be written (eventJSON) and whether the envelope was accepted.
\* (No record holds NaN or an infinity, which no JSON envelope carries, so
\* json.Marshal does not fail.)
StoreUpdate(events, event) ==
    IF Replaces(events, event)
    THEN LET m == Put(events, event.device, RadEvent(event))
         IN  [events |-> m, eventJSON |-> Marshal(m), accepted |-> TRUE]
    ELSE [events |-> events, eventJSON |-> EmptyMap, accepted |-> FALSE]

----------------------------------------------------------------------------
(* The scans *)

\* The orders in which a range over the map may visit its keys.
Orders(S) ==
    {o \in [1..Cardinality(S) -> S] : \A i, j \in 1..Cardinality(S) : i # j => o[i] # o[j]}

\* Mutant: a record counts as located only when neither coordinate is 0.
LocatedBoth(e) == ~F64Eq(e.best_lat, F64Zero) /\ ~F64Eq(e.best_lon, F64Zero)

\* A record with a known location: (0,0) stands for "no location".
Located(e) == ~F64Eq(e.best_lat, F64Zero) \/ ~F64Eq(e.best_lon, F64Zero)

\* Mutant: min and max are not reset by the first record, they start at 0.
AccumulateFromZero(acc, usv) ==
    LET a1 == IF F64Less(usv, acc.min) THEN [acc EXCEPT !.min = usv] ELSE acc
        a2 == IF F64Less(a1.max, usv) THEN [a1 EXCEPT !.max = usv] ELSE a1
    IN  [a2 EXCEPT !.sum = F64Add(@, usv), !.count = F64Add(@, One)]

\* Mutant: max is the dose rate of the record visited last.
AccumulateLatest(acc, usv) ==
    LET a0 == IF F64Eq(acc.count, F64Zero) THEN [acc EXCEPT !.min = usv, !.max = usv] ELSE acc
        a1 == IF F64Less(usv, a0.min) THEN [a0 EXCEPT !.min = usv] ELSE a0
    IN  [a1 EXCEPT !.max = usv, !.sum = F64Add(@, usv), !.count = F64Add(@, One)]

\* The body of the aggregation loop for one record inside the radius.
Accumulate(acc, usv) ==
    LET a0 == IF F64Eq(acc.count, F64Zero) THEN [acc EXCEPT !.min = usv, !.max = usv] ELSE acc
        a1 == IF F64Less(usv, a0.min) THEN [a0 EXCEPT !.min = usv] ELSE a0
        a2 == IF F64Less(a1.max, usv) THEN [a1 EXCEPT !.max = usv] ELSE a1
    IN  [a2 EXCEPT !.sum = F64Add(@, usv), !.count = F64Add(@, One)]

\* Whether the aggregation loop includes a record.
Included(e, lat, lon, radiusMeters) ==
    Located(e) /\ F64LessEq(DistanceTo(e, lat, lon), radiusMeters)

\* count, min, max and sum, each float64(0)
ZeroAgg == [count |-> F64Zero, min |-> F64Zero, max |-> F64Zero, sum |-> F64Zero]

\* The aggregation loop of generateJsonFeed over the map, visited in `order`.
RECURSIVE ScanFeed(_, _, _, _, _, _)
ScanFeed(events, order, lat, lon, radiusMeters, acc) ==
    IF order = << >> THEN acc
    ELSE LET e == events[Head(order)]
         IN  ScanFeed(events, Tail(order), lat, lon, radiusMeters,
                      IF Included(e, lat, lon, radiusMeters)
                      THEN Accumulate(acc, e.usv) ELSE acc)

\* If 0, make it a small region.
DefaultRadius == F64FromInt(10)

EffectiveRadius(radiusMeters) ==
    IF F64Eq(radiusMeters, F64Zero) THEN DefaultRadius ELSE radiusMeters

\* Mutant: the average is taken without looking at count.
AverageUnguarded(acc) == F64Quo(acc.sum, acc.count)

\* Mutant: the sum is not divided.
AverageUndivided(acc) == acc.sum

\* avg := sum / count when count > 0, else 0
Average(acc) == IF F64Less(F64Zero, acc.count) THEN F64Quo(acc.sum, acc.count) ELSE F64Zero

\* The map o that generateJsonFeed marshals; "modified" is the Unix time of
\* the response.
FeedResult(acc, lat, lon, radiusMeters, now) ==
    [lat |-> lat, lon |-> lon, radius_meters |-> radiusMeters,
     count |-> acc.count, usv_min |-> acc.min, usv_max |-> acc.max, usv_avg |-> Average(acc),
     modified |-> now]

\* json.Marshal(o) fails when a float64 of o is NaN or an infinity.
MarshalFails(o) ==
    \E f \in {"lat", "lon", "radius_meters", "count", "usv_min", "usv_max", "usv_avg"} :
        o[f].cls # "fin"

\* Mutant: the threshold comparison is strict.
QualifiesAbove(e, lat, lon, cfg) ==
    /\ F64Less(cfg.RadnoteWarningLevelUsv, e.usv)
    /\ Located(e)
    /\ F64LessEq(DistanceTo(e, lat, lon), cfg.RadnoteWarningRegionMeters)

\* The test locationInWarningRegion applies to one record.
Qualifies(e, lat, lon, cfg) ==
    /\ F64LessEq(cfg.RadnoteWarningLevelUsv, e.usv)
    /\ Located(e)
    /\ F64LessEq(DistanceTo(e, lat, lon), cfg.RadnoteWarningRegionMeters)

\* locationInWarningRegion: the scan in `order`, returning at the first match.
RECURSIVE locationInWarningRegion(_, _, _, _, _)
locationInWarningRegion(events, order, lat, lon, cfg) ==
    IF order = << >> THEN FALSE
    ELSE IF Qualifies(events[Head(order)], lat, lon, cfg) THEN TRUE
    ELSE locationInWarningRegion(events, Tail(order), lat, lon, cfg)

----------------------------------------------------------------------------
(* Requests and responses *)

\* The Unix times the clock shows when a feed is built.
Clock == {1, 2}

\* http.ResponseWriter: the first WriteHeader fixes the status; a Write before
\* any WriteHeader sends 200 first; a handler that returns without either
\* gets 200.
NoResponse ==
    [status |-> 0, body |-> "none", feed |-> << >>, warning |-> FALSE, list |-> EmptyMap]

WriteHeader(r, code) == IF r.status = 0 THEN [r EXCEPT !.status = code] ELSE r

Write(r, body) == [WriteHeader(r, 200) EXCEPT !.body = body]

Finish(r) == WriteHeader(r, 200)

\* A query parameter: absent or empty; text that strconv.ParseFloat rejects
\* as no number or as out of range; or text that it accepts, which is a decimal number or one of the spellings
\* of NaN and of the infinities ("NaN", "Inf", "+Inf", "-Inf", "Infinity"),
\* with the float64 v it stands for.
NoParam == [kind |-> "empty", v |-> F64Zero]

TextParam == [kind |-> "text", v |-> F64Zero]

Num(v) == [kind |-> "num", v |-> v]

\* A number too large for a float64 ("1e999", "-1e999").
OutOfRange(neg) == [kind |-> "range", v |-> Inf(neg)]

\* strconv.ParseFloat(s, 64): the value and whether err != nil; with a syntax
\* error the value is 0, with a range error it is an infinity.
ParseFloat(p) == [err |-> p.kind # "num", v |-> p.v]

\* Mutant: the parse errors are not looked at.
WantsFeedUnchecked(q) ==
    /\ q.lat.kind # "empty" /\ q.lon.kind # "empty"
    /\ ~(F64Eq(ParseFloat(q.lat).v, F64Zero) /\ F64Eq(ParseFloat(q.lon).v, F64Zero))

\* The branch of httpRadiationHandler that generates a feed.
WantsFeed(q) ==
    /\ q.lat.kind # "empty" /\ q.lon.kind # "empty"
    /\ ~ParseFloat(q.lat).err /\ ~ParseFloat(q.lon).err /\ ~ParseFloat(q.radius_meters).err
    /\ ~(F64Eq(ParseFloat(q.lat).v, F64Zero) /\ F64Eq(ParseFloat(q.lon).v, F64Zero))

NoQuery == [lat |-> NoParam, lon |-> NoParam, radius_meters |-> NoParam]

\* An envelope whose JSON cannot be decoded into note.Event.
Undecodable ==
    [ok |-> FALSE, readable |-> TRUE, device |-> "", when |-> 0, file |-> "",
     best_lat |-> F64Zero, best_lon |-> F64Zero, hasBody |-> FALSE, usv |-> F64Zero]

\* A request whose body cannot be read (io.ReadAll fails).
Unreadable == [Undecodable EXCEPT !.readable = FALSE]

\* What an ingested envelope reports: a location and a body with a dose rate,
\* or no location and no body.
Located1 == [best_lat |-> One, best_lon |-> One, hasBody |-> TRUE, usv |-> One]

Unlocated == [best_lat |-> F64Zero, best_lon |-> F64Zero, hasBody |-> FALSE, usv |-> F64Zero]

\* Every device reports located readings; the newest of the first device may
\* also be an unlocated one.
Readings(d, w) == IF d = "dev:a" /\ w = MaxWhen THEN {Located1, Unlocated} ELSE {Located1}

Envelope(d, w, k, r) ==
    [ok |-> TRUE, readable |-> TRUE, device |-> d, when |-> w, file |-> k,
     best_lat |-> r.best_lat, best_lon |-> r.best_lon, hasBody |-> r.hasBody, usv |-> r.usv]

\* The first device reports every timestamp, the others the two newest, which
\* keeps the state space within reach as MaxWhen grows.
Whens(d) == IF d = "dev:a" THEN 1..MaxWhen ELSE (MaxWhen - 1)..MaxWhen

\* The radiation readings, and envelopes of another notefile (whose fields the
\* handler never reads; they carry the newest timestamp and a full reading).
Envelopes ==
    UNION {UNION {{Envelope(d, w, "_air.qo", r) : r \in Readings(d, w)} : w \in Whens(d)} :
            d \in Devices}
    \cup {Envelope(d, MaxWhen, "_session.qo", Located1) : d \in Devices}

\* The queries issued while ingestion runs: the full list, and a feed.
Queries == {NoQuery, [lat |-> Num(One), lon |-> Num(One), radius_meters |-> Num(F64Zero)]}

\* err, the aggregate, the marshalled list, the geofence decision and the
\* measured distance of a handler; and (history) whether its update was
\* accepted, whether another ingestion for another device was under way when
\* it was made, whether its request is the latest to have arrived and what
\* the mapping and the file were when it arrived (the last two are kept by
\* the deliveries in turn only).
NoLocals ==
    [err |-> FALSE, agg |-> ZeroAgg, list |-> EmptyMap, warning |-> FALSE, meters |-> F64Zero,
     eventJSON |-> EmptyMap, accepted |-> FALSE, overlapped |-> FALSE, latest |-> FALSE,
     prior |-> [events |-> [nil |-> TRUE, m |-> EmptyMap], file |-> MissingFile]]

Max(a, b) == IF a >= b THEN a ELSE b

\* The largest occurredAt the snapshot file carries for a device from the
\* process that wrote it, -1 if it carries none.
Carried(f, d) ==
    IF f.kind = "json" /\ d \in DOMAIN f.entries THEN FromJSON(f.entries[d]).when ELSE -1

----------------------------------------------------------------------------
(* The service: requests handled concurrently, step by step *)

\* The snapshots an earlier process may have left behind.
InitFiles ==
    {MissingFile, TornFile,
     JSONFile(Marshal([d \in {"dev:a"} |->
        [when |-> MaxWhen, best_lat |-> One, best_lon |-> One, usv |-> One]]))}

\* var config Config: the zero value, which the fields have until configLoad
\* has run (no main of the sources calls it).
ZeroConfig == [RadnoteWarningLevelUsv |-> F64Zero, RadnoteWarningRegionMeters |-> F64Zero]

Init ==
    /\ radEvents = [nil |-> TRUE, m |-> EmptyMap]
    /\ file \in InitFiles
    /\ radLock = 0
    /\ config = ZeroConfig
    /\ pc = [p \in Procs |-> "idle"]
    /\ req = [p \in Procs |-> [op |-> "none", event |-> Undecodable, query |-> NoQuery]]
    /\ local = [p \in Procs |-> NoLocals]
    /\ resp = [p \in Procs |-> NoResponse]
    /\ seen = [d \in Devices |-> Carried(file, d)]
    /\ nreads = 0
    /\ nwrites = [p \in Procs |-> 0]
    /\ printed = << >>

\* The handler's variables at the arrival of a request at worker p. (History:
\* "overlapped" speaks of the requests the workers are on, so an arrival
\* clears it for the others.)
Arrival(p) ==
    [x \in Procs |-> IF x = p THEN NoLocals ELSE [local[x] EXCEPT !.overlapped = FALSE]]

\* A request arrives at /radnote with the given envelope.
RadnoteBegin(p, event) ==
    /\ pc[p] \in {"idle", "done"}
    /\ pc' = [pc EXCEPT ![p] = "ensure"]
    /\ req' = [req EXCEPT ![p] = [op |-> "radnote", event |-> event, query |-> NoQuery]]
    /\ local' = Arrival(p)
    /\ resp' = [resp EXCEPT ![p] = NoResponse]
    /\ nwrites' = [nwrites EXCEPT ![p] = 0]
    /\ printed' = << >>
    /\ UNCHANGED <<radEvents, file, radLock, config, seen, nreads>>

\* A request arrives at the radiation query endpoint.
RadiationBegin(p, query) ==
    /\ pc[p] \in {"idle", "done"}
    /\ pc' = [pc EXCEPT ![p] = "ensure"]
    /\ req' = [req EXCEPT ![p] = [op |-> "radiation", event |-> Undecodable, query |-> query]]
    /\ local' = Arrival(p)
    /\ resp' = [resp EXCEPT ![p] = NoResponse]
    /\ nwrites' = [nwrites EXCEPT ![p] = 0]
    /\ printed' = << >>
    /\ UNCHANGED <<radEvents, file, radLock, config, seen, nreads>>

\* Mutant: the nil check is missing, every call loads.
NeedsLoadAlways(events) == TRUE

\* if radEvents == nil
NeedsLoad(events) == events.nil

\* ensureLoaded: radLock.Lock() and the first-time load.
EnsureLoadedLock(p) ==
    /\ pc[p] = "ensure"
    /\ radLock = 0
    /\ radLock' = p
    /\ IF NeedsLoad(radEvents)
       THEN /\ radEvents' = LoadFile(file, radFile).events
            /\ printed' = LoadFile(file, radFile).printed
            /\ nreads' = nreads + 1
       ELSE /\ printed' = << >>
            /\ UNCHANGED <<radEvents, nreads>>
    /\ pc' = [pc EXCEPT ![p] = "ensure_cs"]
    /\ UNCHANGED <<file, config, req, local, resp, seen, nwrites>>

\* Mutant: the notefile is not looked at.
RadnoteDecodeAnyKind(p) ==
    IF ~req[p].event.ok
    THEN /\ resp' = [resp EXCEPT ![p] = WriteHeader(Write(@, "error"), 500)]
         /\ pc' = [pc EXCEPT ![p] = "done"]
    ELSE /\ resp' = resp
         /\ pc' = [pc EXCEPT ![p] = "store"]

\* The handler after the load: read and decode the body (on an error the
\* message is written, then WriteHeader(500) is called), leave unless it is a
\* data reading.
RadnoteDecode(p) ==
    IF ~req[p].event.ok
    THEN /\ resp' = [resp EXCEPT ![p] = WriteHeader(Write(@, "error"), 500)]
         /\ pc' = [pc EXCEPT ![p] = "done"]
    ELSE IF req[p].event.file # "_air.qo"
    THEN /\ resp' = [resp EXCEPT ![p] = WriteHeader(@, 200)]
         /\ pc' = [pc EXCEPT ![p] = "done"]
    ELSE /\ resp' = resp
         /\ pc' = [pc EXCEPT ![p] = "store"]

\* httpRadiationHandler after ensureLoaded: parse the query; a feed, or the
\* full list.
RadiationParse(p) ==
    IF WantsFeed(req[p].query)
    THEN /\ pc' = [pc EXCEPT ![p] = "scan"]
         /\ resp' = resp
    ELSE /\ pc' = [pc EXCEPT ![p] = "list"]
         /\ resp' = [resp EXCEPT ![p] = WriteHeader(@, 200)]

\* ensureLoaded: radLock.Unlock(); the handler runs on to its next lock or
\* return.  httpRadnoteHandler prints a line about a body it cannot read or
\* decode.
EnsureLoadedUnlock(p) ==
    /\ pc[p] = "ensure_cs"
    /\ radLock' = 0
    /\ IF req[p].op = "radnote"
       THEN /\ RadnoteDecode(p)
            /\ printed' =
                  IF ~req[p].event.readable
                  THEN <<Line("radnote: error reading POSTed body: %s\n", << >>)>>
                  ELSE IF ~req[p].event.ok
                  THEN <<Line("radnote: error marshaling POSTed body: %s\n%s\n", << >>)>>
                  ELSE << >>
       ELSE RadiationParse(p) /\ printed' = << >>
    /\ UNCHANGED <<radEvents, file, config, req, local, seen, nreads, nwrites>>

\* Whether another worker is handling a radiation envelope of another device
\* and has not yet reached its update.
OtherUnderWay(p) ==
    \E q \in Procs \ {p} :
        /\ pc[q] \in {"ensure", "ensure_cs", "store"}
        /\ req[q].op = "radnote" /\ req[q].event.ok /\ req[q].event.file = "_air.qo"
        /\ req[q].event.device # req[p].event.device

\* httpRadnoteHandler: radLock.Lock(), the comparison of the timestamps and,
\* if the envelope replaces the stored record, the assignment to the map and
\* json.Marshal of the map.  An accepted update goes on to os.WriteFile, any
\* other to the Unlock.
RadnoteStoreLock(p) ==
    /\ pc[p] = "store"
    /\ radLock = 0
    /\ radLock' = p
    /\ LET u == StoreUpdate(radEvents.m, req[p].event)
       IN  /\ radEvents' = [radEvents EXCEPT !.m = u.events]
           /\ local' = [local EXCEPT ![p].eventJSON = u.eventJSON,
                                      ![p].accepted = u.accepted,
                                      ![p].overlapped = u.accepted /\ OtherUnderWay(p)]
           /\ pc' = [pc EXCEPT ![p] = IF u.accepted THEN "write" ELSE "store_cs"]
    /\ seen' = [seen EXCEPT ![req[p].event.device] = Max(@, req[p].event.when)]
    /\ printed' = << >>
    /\ UNCHANGED <<file, config, req, resp, nreads, nwrites>>

\* httpRadnoteHandler: os.WriteFile(configDataDirectory+radFile, eventJSON,
\* 0644), its first half.  The file is opened with O_CREATE and O_TRUNC:
\* either this fails, the file stays as it is and os.WriteFile returns the
\* error, or the file is now empty.
RadnoteStoreOpen(p) ==
    /\ pc[p] = "write"
    /\ nwrites' = [nwrites EXCEPT ![p] = @ + 1]
    /\ \E opened \in BOOLEAN :
          IF opened
          THEN /\ file' = TornFile
               /\ local' = local
               /\ pc' = [pc EXCEPT ![p] = "open"]
          ELSE /\ file' = file
               /\ local' = [local EXCEPT ![p].err = TRUE, ![p].eventJSON = EmptyMap]
               /\ pc' = [pc EXCEPT ![p] = "store_cs"]
    /\ printed' = << >>
    /\ UNCHANGED <<radEvents, radLock, config, req, resp, seen, nreads>>

\* httpRadnoteHandler: os.WriteFile, its second half.  The bytes are written
\* to the open file (f.Write) and the file is closed (f.Close): either all of
\* eventJSON is in the file or the write was cut short, and os.WriteFile
\* returns the error of the write or, if the write succeeded, that of Close;
\* so a complete file can come with an error.
RadnoteStoreWrite(p) ==
    /\ pc[p] = "open"
    /\ \E written \in BOOLEAN, closed \in BOOLEAN :
          /\ file' = IF written THEN JSONFile(local[p].eventJSON) ELSE TornFile
          /\ local' = [local EXCEPT ![p].err = ~written \/ ~closed,
                                     ![p].eventJSON = EmptyMap]
    /\ pc' = [pc EXCEPT ![p] = "store_cs"]
    /\ printed' = << >>
    /\ UNCHANGED <<radEvents, radLock, config, req, resp, seen, nreads, nwrites>>

\* Mutant: a failed write takes the new record out of the map again.
RadnoteStoreUnlockRollback(p, name) ==
    /\ pc[p] = "store_cs"
    /\ radLock' = 0
    /\ radEvents' = IF local[p].err
                    THEN [radEvents EXCEPT !.m = [d \in DOMAIN @ \ {req[p].event.device} |-> @[d]]]
                    ELSE radEvents
    /\ printed' = IF local[p].err
                  THEN <<Line("radnote: can't store %s: %s\n", <<name>>)>> ELSE << >>
    /\ resp' = [resp EXCEPT ![p] = Finish(@)]
    /\ pc' = [pc EXCEPT ![p] = "done"]
    /\ UNCHANGED <<file, config, req, local, seen, nreads, nwrites>>

\* Mutant: a failed write is reported to the caller.
RadnoteStoreUnlockSurfaced(p, name) ==
    /\ pc[p] = "store_cs"
    /\ radLock' = 0
    /\ printed' = IF local[p].err
                  THEN <<Line("radnote: can't store %s: %s\n", <<name>>)>> ELSE << >>
    /\ resp' = [resp EXCEPT ![p] = IF local[p].err THEN WriteHeader(@, 500) ELSE Finish(@)]
    /\ pc' = [pc EXCEPT ![p] = "done"]
    /\ UNCHANGED <<radEvents, file, config, req, local, seen, nreads, nwrites>>

\* httpRadnoteHandler: radLock.Unlock(), print a failed write, return.
RadnoteStoreUnlock(p, name) ==
    /\ pc[p] = "store_cs"
    /\ radLock' = 0
    /\ printed' = IF local[p].err
                  THEN <<Line("radnote: can't store %s: %s\n", <<name>>)>> ELSE << >>
    /\ resp' = [resp EXCEPT ![p] = Finish(@)]
    /\ pc' = [pc EXCEPT ![p] = "done"]
    /\ UNCHANGED <<radEvents, file, config, req, local, seen, nreads, nwrites>>

\* The argument radiusMeters of generateJsonFeed after the default has
\* replaced a 0.
FeedRadius(q) == EffectiveRadius(ParseFloat(q.radius_meters).v)

\* FeedScanLock with a lock that does not exclude.
FeedScanLockNoWait(p) ==
    /\ pc[p] = "scan"
    /\ radLock' = p
    /\ \E order \in Orders(DOMAIN radEvents.m) :
          local' = [local EXCEPT ![p].agg =
                      ScanFeed(radEvents.m, order, ParseFloat(req[p].query.lat).v, ParseFloat(req[p].query.lon).v,
                               FeedRadius(req[p].query), ZeroAgg)]
    /\ pc' = [pc EXCEPT ![p] = "scan_cs"]
    /\ printed' = << >>
    /\ UNCHANGED <<radEvents, file, config, req, resp, seen, nreads, nwrites>>

\* generateJsonFeed: radLock.Lock() and the aggregation loop.
FeedScanLock(p) ==
    /\ pc[p] = "scan"
    /\ radLock = 0
    /\ radLock' = p
    /\ \E order \in Orders(DOMAIN radEvents.m) :
          local' = [local EXCEPT ![p].agg =
                      ScanFeed(radEvents.m, order, ParseFloat(req[p].query.lat).v, ParseFloat(req[p].query.lon).v,
                               FeedRadius(req[p].query), ZeroAgg)]
    /\ pc' = [pc EXCEPT ![p] = "scan_cs"]
    /\ printed' = << >>
    /\ UNCHANGED <<radEvents, file, config, req, resp, seen, nreads, nwrites>>

\* generateJsonFeed once o is built: o is marshalled and the feed with it is
\* written; when json.Marshal fails the error is printed and the answer is
\* WriteHeader(500) with no body.  (f.MarshalJSON, the second marshalling,
\* works on the strings and times of the feed and does not fail.)  The
\* response, and what is printed.
FeedResponse(r, o) ==
    IF MarshalFails(o)
    THEN [resp |-> WriteHeader(r, 500), printed |-> <<Line("generateJsonFeed: %s\n", << >>)>>]
    ELSE [resp |-> [Write(r, "feed") EXCEPT !.feed = o], printed |-> << >>]

\* generateJsonFeed from the building of o to its return.
FeedFinish(p) ==
    \E now \in Clock :
        LET o == FeedResult(local[p].agg, ParseFloat(req[p].query.lat).v, ParseFloat(req[p].query.lon).v,
                            FeedRadius(req[p].query), now)
        IN  /\ resp' = [resp EXCEPT ![p] = FeedResponse(@, o).resp]
            /\ printed' = FeedResponse(resp[p], o).printed

\* generateJsonFeed: radLock.Unlock() and the average; when nothing matched
\* the query is printed and the map is about to be, else the feed is written.
FeedScanUnlock(p) ==
    /\ pc[p] = "scan_cs"
    /\ radLock' = 0
    /\ IF F64Eq(local[p].agg.count, F64Zero)
       THEN /\ pc' = [pc EXCEPT ![p] = "debug"]
            /\ printed' = <<Line("NOT FOUND: %f,%f %f\n",
                                 <<ParseFloat(req[p].query.lat).v, ParseFloat(req[p].query.lon).v,
                                   FeedRadius(req[p].query)>>)>>
            /\ UNCHANGED <<local, resp>>
       ELSE /\ pc' = [pc EXCEPT ![p] = "done"]
            /\ FeedFinish(p)
            /\ local' = local
    /\ UNCHANGED <<radEvents, file, config, req, seen, nreads, nwrites>>

\* generateJsonFeed: nothing matched, radLock.Lock() and the map is printed.
FeedDebugLock(p) ==
    /\ pc[p] = "debug"
    /\ radLock = 0
    /\ radLock' = p
    /\ pc' = [pc EXCEPT ![p] = "debug_cs"]
    /\ printed' = <<Line("%+v\n", <<radEvents.m>>)>>
    /\ UNCHANGED <<radEvents, file, config, req, local, resp, seen, nreads, nwrites>>

\* generateJsonFeed: radLock.Unlock() after the print, then the feed.
FeedDebugUnlock(p) ==
    /\ pc[p] = "debug_cs"
    /\ radLock' = 0
    /\ pc' = [pc EXCEPT ![p] = "done"]
    /\ FeedFinish(p)
    /\ UNCHANGED <<radEvents, file, config, req, local, seen, nreads, nwrites>>

\* httpRadiationHandler: radLock.Lock() and json.MarshalIndent(radEvents).
ListLock(p) ==
    /\ pc[p] = "list"
    /\ radLock = 0
    /\ radLock' = p
    /\ local' = [local EXCEPT ![p].list = Marshal(radEvents.m)]
    /\ pc' = [pc EXCEPT ![p] = "list_cs"]
    /\ printed' = << >>
    /\ UNCHANGED <<radEvents, file, config, req, resp, seen, nreads, nwrites>>

\* httpRadiationHandler: radLock.Unlock() and the list is written.
ListUnlock(p) ==
    /\ pc[p] = "list_cs"
    /\ radLock' = 0
    /\ resp' = [resp EXCEPT ![p] = [Write(@, "list") EXCEPT !.list = local[p].list]]
    /\ pc' = [pc EXCEPT ![p] = "done"]
    /\ printed' = << >>
    /\ UNCHANGED <<radEvents, file, config, req, local, seen, nreads, nwrites>>

Next ==
    \E p \in Procs :
        \/ \E event \in Envelopes \cup {Undecodable, Unreadable} : RadnoteBegin(p, event)
        \/ \E query \in Queries : RadiationBegin(p, query)
        \/ EnsureLoadedLock(p)
        \/ EnsureLoadedUnlock(p)
        \/ RadnoteStoreLock(p)
        \/ RadnoteStoreOpen(p)
        \/ RadnoteStoreWrite(p)
        \/ RadnoteStoreUnlock(p, radFile)
        \/ FeedScanLock(p)
        \/ FeedScanUnlock(p)
        \/ FeedDebugLock(p)
        \/ FeedDebugUnlock(p)
        \/ ListLock(p)
        \/ ListUnlock(p)

Spec == Init /\ [][Next]_vars

----------------------------------------------------------------------------
(* The query endpoint on its own, with parameters of every form *)

\* lat, lon and radius_meters each absent, a number, text that is no number,
\* "NaN", "Inf", or a number out of range.
AnyQueries ==
    {[lat |-> a, lon |-> b, radius_meters |-> r] :
        a \in {NoParam, Num(One), TextParam, Num(NaN)},
        b \in {Num(One), TextParam},
        r \in {NoParam, Num(F64Zero), TextParam, Num(Inf(FALSE)), OutOfRange(FALSE)}}

QueryNext ==
    \E p \in Procs :
        \/ \E query \in AnyQueries : RadiationBegin(p, query)
        \/ EnsureLoadedLock(p)
        \/ EnsureLoadedUnlock(p)
        \/ FeedScanLock(p)
        \/ FeedScanUnlock(p)
        \/ FeedDebugLock(p)
        \/ FeedDebugUnlock(p)
        \/ ListLock(p)
        \/ ListUnlock(p)

SpecQuery == Init /\ [][QueryNext]_vars

----------------------------------------------------------------------------
(* The earlier handler of radnote.go: one endpoint, GET queries and POST   *)
(* ingestion, the same store under radnoteLock                             *)

\* The branch of the earlier /radnote GET handler that answers a geofence check.
WantsGeofence(q) ==
    /\ ~ParseFloat(q.lat).err /\ ~ParseFloat(q.lon).err
    /\ ~(F64Eq(ParseFloat(q.lat).v, F64Zero) /\ F64Eq(ParseFloat(q.lon).v, F64Zero))

\* The requests: a GET without lat/lon (the list), a GET with them (the
\* geofence check), a POST with an envelope, and another method.
RadnoteGoRequests ==
    {[op |-> "GET", event |-> Undecodable, query |-> q] :
        q \in {NoQuery, [lat |-> Num(One), lon |-> Num(One), radius_meters |-> NoParam]}}
    \cup {[op |-> "POST", event |-> e, query |-> NoQuery] :
            e \in {x \in Envelopes : x.when = MaxWhen} \cup {Undecodable}}
    \cup {[op |-> "PUT", event |-> Undecodable, query |-> NoQuery]}

\* A request arrives at the handler.
RadnoteGoBegin(p, r) ==
    /\ pc[p] \in {"idle", "done"}
    /\ pc' = [pc EXCEPT ![p] = "load"]
    /\ req' = [req EXCEPT ![p] = r]
    /\ local' = Arrival(p)
    /\ resp' = [resp EXCEPT ![p] = NoResponse]
    /\ nwrites' = [nwrites EXCEPT ![p] = 0]
    /\ printed' = << >>
    /\ UNCHANGED <<radEvents, file, radLock, config, seen, nreads>>

\* Make sure the data is loaded: radnoteLock.Lock() and the first-time load.
RadnoteGoLoadLock(p) ==
    /\ pc[p] = "load"
    /\ radLock = 0
    /\ radLock' = p
    /\ IF NeedsLoad(radEvents)
       THEN /\ radEvents' = LoadFile(file, radnoteFile).events
            /\ printed' = LoadFile(file, radnoteFile).printed
            /\ nreads' = nreads + 1
       ELSE /\ printed' = << >>
            /\ UNCHANGED <<radEvents, nreads>>
    /\ pc' = [pc EXCEPT ![p] = "load_cs"]
    /\ UNCHANGED <<file, config, req, local, resp, seen, nwrites>>

\* radnoteLock.Unlock(); then by method: the geofence check or the list for a
\* GET, which prints the query and lat and lon as parsed, status 500 for anything but a POST, else the envelope is decoded
\* (this handler prints nothing about a body it cannot read or decode).
RadnoteGoLoadUnlock(p) ==
    /\ pc[p] = "load_cs"
    /\ radLock' = 0
    /\ IF req[p].op = "GET"
       THEN /\ printed' =
                  <<Line("QUERY: %+v\n", <<req[p].query>>),
                    Line("lat: %s %f %s\n", <<req[p].query.lat, ParseFloat(req[p].query.lat).v,
                                              ParseFloat(req[p].query.lat).err>>),
                    Line("lon: %s %f %s\n", <<req[p].query.lon, ParseFloat(req[p].query.lon).v,
                                              ParseFloat(req[p].query.lon).err>>)>>
            /\ IF WantsGeofence(req[p].query)
               THEN /\ pc' = [pc EXCEPT ![p] = "fence"]
                    /\ resp' = resp
               ELSE /\ pc' = [pc EXCEPT ![p] = "getlist"]
                    /\ resp' = [resp EXCEPT ![p] = WriteHeader(@, 200)]
       ELSE /\ printed' = << >>
            /\ IF req[p].op # "POST"
               THEN /\ pc' = [pc EXCEPT ![p] = "done"]
                    /\ resp' = [resp EXCEPT ![p] = WriteHeader(@, 500)]
               ELSE RadnoteDecode(p)
    /\ UNCHANGED <<radEvents, file, config, req, local, seen, nreads, nwrites>>

\* locationInWarningRegion: radnoteLock.Lock() and the scan.
RadnoteGoFenceLock(p) ==
    /\ pc[p] = "fence"
    /\ radLock = 0
    /\ radLock' = p
    /\ \E order \in Orders(DOMAIN radEvents.m) :
          local' = [local EXCEPT ![p].warning =
                       locationInWarningRegion(radEvents.m, order,
                           ParseFloat(req[p].query.lat).v, ParseFloat(req[p].query.lon).v,
                           config)]
    /\ pc' = [pc EXCEPT ![p] = "fence_cs"]
    /\ printed' = << >>
    /\ UNCHANGED <<radEvents, file, config, req, resp, seen, nreads, nwrites>>

\* locationInWarningRegion returns (the deferred Unlock runs) and
\* generateJsonFeed writes the feed: o holds the warning flag and two whole
\* numbers, so neither marshalling fails.
RadnoteGoFenceUnlock(p) ==
    /\ pc[p] = "fence_cs"
    /\ radLock' = 0
    /\ resp' = [resp EXCEPT ![p] = [Write(@, "feed") EXCEPT !.warning = local[p].warning]]
    /\ pc' = [pc EXCEPT ![p] = "done"]
    /\ printed' = << >>
    /\ UNCHANGED <<radEvents, file, config, req, local, seen, nreads, nwrites>>

\* Just retrieve the list: radnoteLock.Lock(), json.MarshalIndent, w.Write,
\* return. There is no Unlock on this path.
RadnoteGoListLock(p) ==
    /\ pc[p] = "getlist"
    /\ radLock = 0
    /\ radLock' = p
    /\ local' = [local EXCEPT ![p].list = Marshal(radEvents.m)]
    /\ resp' = [resp EXCEPT ![p] = [Write(@, "list") EXCEPT !.list = Marshal(radEvents.m)]]
    /\ pc' = [pc EXCEPT ![p] = "done"]
    /\ printed' = << >>
    /\ UNCHANGED <<radEvents, file, config, req, seen, nreads, nwrites>>

\* The POST path from its lock on is the code of RadnoteStoreLock,
\* RadnoteStoreOpen, RadnoteStoreWrite and RadnoteStoreUnlock, with the file
\* radnoteFile.
RadnoteGoNext ==
    \E p \in Procs :
        \/ \E r \in RadnoteGoRequests : RadnoteGoBegin(p, r)
        \/ RadnoteGoLoadLock(p)
        \/ RadnoteGoLoadUnlock(p)
        \/ RadnoteGoFenceLock(p)
        \/ RadnoteGoFenceUnlock(p)
        \/ RadnoteGoListLock(p)
        \/ RadnoteStoreLock(p)
        \/ RadnoteStoreOpen(p)
        \/ RadnoteStoreWrite(p)
        \/ RadnoteStoreUnlock(p, radnoteFile)

SpecRadnoteGo == Init /\ [][RadnoteGoNext]_vars

----------------------------------------------------------------------------
(* The scans on their own: queries answered one at a time over a loaded    *)
(* store, by the query handler and by the geofence check of radnote.go     *)

\* Largest dose rate, in absolute value, of a record of the scanned stores.
MaxDose == 2

Doses == {F64FromInt(u) : u \in (0 - MaxDose)..MaxDose}

\* Record locations: unknown (0,0), one coordinate 0, none 0.  The first
\* device reports from each of them, the second from (0,1), the third from (1,1).
ScanPoints(d) ==
    CASE d = "dev:a" -> {<<F64Zero, F64Zero>>, <<F64Zero, One>>, <<One, One>>}
      [] d = "dev:b" -> {<<F64Zero, One>>}
      [] OTHER       -> {<<One, One>>}

ScanRecords(d) ==
    {[when |-> 1, best_lat |-> pt[1], best_lon |-> pt[2], usv |-> u] :
        pt \in ScanPoints(d), u \in Doses}

ScanStores ==
    UNION {{m \in [D -> UNION {ScanRecords(d) : d \in D}] : \A d \in D : m[d] \in ScanRecords(d)} :
            D \in SUBSET ScanDevices}

\* The distance between the record locations (0,1) and (1,1),
\* metersApart(0, 1, 1, 1) = 111194.92664492002: a radius equal to it puts
\* one of them exactly on the boundary of the other's region.
Boundary == F64(FALSE, 0 - 36, 56931802, 59350952)

\* The configuration file config.json: missing, text that is not JSON, or
\* JSON that gives the threshold and the region their values.
ConfigFiles ==
    {MissingFile, TornFile,
     JSONFile([RadnoteWarningLevelUsv |-> One, RadnoteWarningRegionMeters |-> F64Zero]),
     JSONFile([RadnoteWarningLevelUsv |-> F64FromInt(MaxDose), RadnoteWarningRegionMeters |-> Boundary])}

\* configLoad, run before any request is served: the configuration file is
\* read and decoded into config.  When it cannot be read or decoded, a line is
\* printed and os.Exit(-1) ends the process: no worker takes a step again.
configLoad(f) ==
    /\ \A p \in Procs : pc[p] = "idle"
    /\ config = ZeroConfig
    /\ IF f.kind = "json"
       THEN /\ config' = f.entries
            /\ printed' = << >>
            /\ pc' = pc
       ELSE /\ config' = config
            /\ printed' =
                  IF f.kind = "missing"
                  THEN <<Line("config: can't load from %s: %s\n", <<"/home/ubuntu/data/config.json">>)>>
                  ELSE <<Line("config: can't parse JSON: %s\n%s\n", << >>)>>
            /\ pc' = [p \in Procs |-> "exited"]
    /\ UNCHANGED <<radEvents, file, radLock, req, local, resp, seen, nreads, nwrites>>

\* The queries: lat and lon 0 or 1; no radius, radius 0, the boundary radius,
\* and one that reaches every record; and queries with "NaN" for lat and
\* "Inf" for the radius.
ScanQueries ==
    {[lat |-> Num(a), lon |-> Num(b), radius_meters |-> r] :
        a \in {F64Zero, One}, b \in {F64Zero, One},
        r \in {NoParam, Num(F64Zero), Num(Boundary), Num(F64Add(Boundary, Boundary))}}
    \cup {[lat |-> Num(NaN), lon |-> Num(One), radius_meters |-> r] :
            r \in {NoParam, Num(Boundary)}}
    \cup {[lat |-> Num(One), lon |-> Num(One), radius_meters |-> Num(Inf(FALSE))]}

ScanInit ==
    /\ \E m \in ScanStores :
          /\ radEvents = [nil |-> FALSE, m |-> m]
          /\ file = JSONFile(Marshal(m))
    /\ radLock = 0
    /\ config = ZeroConfig
    /\ pc = [p \in Procs |-> "idle"]
    /\ req = [p \in Procs |-> [op |-> "none", event |-> Undecodable, query |-> NoQuery]]
    /\ local = [p \in Procs |-> NoLocals]
    /\ resp = [p \in Procs |-> NoResponse]
    /\ seen = [d \in Devices |-> Carried(file, d)]
    /\ nreads = 1
    /\ nwrites = [p \in Procs |-> 0]
    /\ printed = << >>

\* The worker that serves the queries of the scan specification.
Scanner == CHOOSE p \in Procs : \A q \in Procs : p <= q

\* The geofence checks are the GETs of radnote.go with lat and lon (a GET
\* without them never releases the lock, so no query would follow it).
ScanNext ==
    \/ \E f \in ConfigFiles : configLoad(f)
    \/ \E q \in ScanQueries : RadiationBegin(Scanner, q)
    \/ \E q \in {x \in ScanQueries : x.radius_meters = NoParam /\ WantsGeofence(x)} :
          RadnoteGoBegin(Scanner, [op |-> "GET", event |-> Undecodable, query |-> q])
    \/ EnsureLoadedLock(Scanner)
    \/ EnsureLoadedUnlock(Scanner)
    \/ FeedScanLock(Scanner)
    \/ FeedScanUnlock(Scanner)
    \/ FeedDebugLock(Scanner)
    \/ FeedDebugUnlock(Scanner)
    \/ ListLock(Scanner)
    \/ ListUnlock(Scanner)
    \/ RadnoteGoLoadLock(Scanner)
    \/ RadnoteGoLoadUnlock(Scanner)
    \/ RadnoteGoFenceLock(Scanner)
    \/ RadnoteGoFenceUnlock(Scanner)

SpecScan == ScanInit /\ [][ScanNext]_vars

----------------------------------------------------------------------------
(* Dose rates that are not whole numbers, and the largest float64           *)

FloatDoses ==
    {F64(FALSE, 0 - 56, 53687091, 26843546),   \* 0.1
     F64(FALSE, 0 - 55, 53687091, 26843546),   \* 0.2
     F64(FALSE, 0 - 54, 40265318, 53687091),   \* 0.3
     F64(FALSE, 0 - 54, 53687091, 26843546),   \* 0.4
     F64(FALSE, MaxExp, Limb \div 2 - 1, Limb - 1)}   \* 1.7976931348623157e308

\* Stores of records with such dose rates, all written to the file: the
\* first device at (0,1) or (1,1), the others at (1,1).
FloatStores ==
    UNION {{m \in [D -> {[when |-> 1, best_lat |-> a, best_lon |-> One, usv |-> u] :
                            a \in {F64Zero, One}, u \in FloatDoses}] :
               \A d \in D : d = "dev:a" \/ m[d].best_lat = One} : D \in SUBSET ScanDevices}

FloatInit ==
    /\ \E m \in FloatStores :
          /\ radEvents = [nil |-> FALSE, m |-> m]
          /\ file = JSONFile(Marshal(m))
    /\ radLock = 0
    /\ config = ZeroConfig
    /\ pc = [p \in Procs |-> "idle"]
    /\ req = [p \in Procs |-> [op |-> "none", event |-> Undecodable, query |-> NoQuery]]
    /\ local = [p \in Procs |-> NoLocals]
    /\ resp = [p \in Procs |-> NoResponse]
    /\ seen = [d \in Devices |-> Carried(file, d)]
    /\ nreads = 1
    /\ nwrites = [p \in Procs |-> 0]
    /\ printed = << >>

\* Radius queries at (1,1) with each radius.
FloatNext ==
    \/ \E q \in {x \in ScanQueries : x.lat = Num(One) /\ x.lon = Num(One) /\ WantsFeed(x)} :
          RadiationBegin(Scanner, q)
    \/ EnsureLoadedLock(Scanner)
    \/ EnsureLoadedUnlock(Scanner)
    \/ FeedScanLock(Scanner)
    \/ FeedScanUnlock(Scanner)
    \/ FeedDebugLock(Scanner)
    \/ FeedDebugUnlock(Scanner)

SpecFloat == FloatInit /\ [][FloatNext]_vars

----------------------------------------------------------------------------
(* Envelopes delivered one after the other: a request arrives only when no *)
(* other is being handled, at another worker than the one before, which    *)
(* keeps the request and the locals of its run                             *)

\* An envelope arrives at /radnote while no request is under way.  (History:
\* the worker notes that its request is the latest and what the mapping and
\* the file are at its arrival.)
InTurnArrival(p, event) ==
    /\ \A x \in Procs : pc[x] \in {"idle", "done"}
    /\ ~local[p].latest
    /\ pc' = [pc EXCEPT ![p] = "ensure"]
    /\ req' = [req EXCEPT ![p] = [op |-> "radnote", event |-> event, query |-> NoQuery]]
    /\ local' = [x \in Procs |->
                   IF x = p
                   THEN [NoLocals EXCEPT !.latest = TRUE,
                                         !.prior = [events |-> radEvents, file |-> file]]
                   ELSE [local[x] EXCEPT !.latest = FALSE, !.overlapped = FALSE]]
    /\ resp' = [resp EXCEPT ![p] = NoResponse]
    /\ nwrites' = [nwrites EXCEPT ![p] = 0]
    /\ printed' = << >>
    /\ UNCHANGED <<radEvents, file, radLock, config, seen, nreads>>

InTurnNext ==
    \E p \in Procs :
        \/ \E event \in Envelopes \cup {Undecodable, Unreadable} : InTurnArrival(p, event)
        \/ EnsureLoadedLock(p)
        \/ EnsureLoadedUnlock(p)
        \/ RadnoteStoreLock(p)
        \/ RadnoteStoreOpen(p)
        \/ RadnoteStoreWrite(p)
        \/ RadnoteStoreUnlock(p, radFile)

SpecInTurn == Init /\ [][InTurnNext]_vars

----------------------------------------------------------------------------
(* metersApart on its own: each worker holds a point and measures the      *)
(* distance from its point to the other worker's                           *)

\* The points: in whole degrees, on both sides of the equator and of the
\* prime meridian, hundreds of kilometers apart; and (45, 7) with its
\* neighbour (45.00001, 7.00001), between one and two meters away.
MetersPoints ==
    {<<F64FromInt(a), F64FromInt(b)>> : a \in {-1, 0, 2}, b \in {-1, 0, 2}}
        \cup {<<F64FromInt(45), F64FromInt(7)>>,
              <<F64Quo(F64FromInt(4500001), F64FromInt(100000)),
                F64Quo(F64FromInt(700001), F64FromInt(100000))>>}

MetersInit ==
    /\ radEvents = [nil |-> TRUE, m |-> EmptyMap]
    /\ file = MissingFile
    /\ radLock = 0
    /\ config = ZeroConfig
    /\ pc = [p \in Procs |-> "idle"]
    /\ \E pts \in [Procs -> MetersPoints] :
          req = [p \in Procs |-> [op |-> "meters", event |-> Undecodable,
                                  query |-> [lat |-> Num(pts[p][1]), lon |-> Num(pts[p][2]),
                                             radius_meters |-> NoParam]]]
    /\ local = [p \in Procs |-> NoLocals]
    /\ resp = [p \in Procs |-> NoResponse]
    /\ seen = [d \in Devices |-> Carried(file, d)]
    /\ nreads = 0
    /\ nwrites = [p \in Procs |-> 0]
    /\ printed = << >>

\* metersApart(lat1, lon1, lat2, lon2) with the point of p first and the
\* point of q second.
MetersApartCall(p, q) ==
    /\ pc[p] = "idle"
    /\ local' = [local EXCEPT ![p].meters =
                    metersApart(ParseFloat(req[p].query.lat).v, ParseFloat(req[p].query.lon).v,
                                ParseFloat(req[q].query.lat).v, ParseFloat(req[q].query.lon).v)]
    /\ pc' = [pc EXCEPT ![p] = "done"]
    /\ UNCHANGED <<radEvents, file, radLock, config, req, resp, seen, nreads, nwrites, printed>>

MetersNext == \E p \in Procs : \E q \in Procs \ {p} : MetersApartCall(p, q)

SpecMeters == MetersInit /\ [][MetersNext]_vars

----------------------------------------------------------------------------
(* Process lifetimes: the service ingests envelopes, is stopped at any     *)
(* moment (also inside a critical section: os.Exit does not wait for the   *)
(* mutex) and started again; the snapshot file is all that a new process   *)
(* inherits.  Each worker handles one envelope per lifetime, so the locals *)
(* of the workers record every write of the lifetime                       *)

\* The process is stopped, by SIGINT (signalHandler prints a line and calls
\* os.Exit(0)) or by "q" on the console (inputHandler calls os.Exit(0)), and
\* started: the package-level variables have their zero values again
\* (radEvents is nil, radLock is unlocked, config is empty) and no request is
\* under way.  The snapshot file stays as it is at that moment: without the
\* record of an update stopped between its assignment to the map and
\* os.WriteFile, and empty when the process is stopped inside os.WriteFile.
\* (History: seen spans the lifetimes, the counters are those of the new
\* process.)
Restart ==
    /\ radEvents' = [nil |-> TRUE, m |-> EmptyMap]
    /\ radLock' = 0
    /\ config' = ZeroConfig
    /\ pc' = [p \in Procs |-> "idle"]
    /\ req' = [p \in Procs |-> [op |-> "none", event |-> Undecodable, query |-> NoQuery]]
    /\ local' = [p \in Procs |-> NoLocals]
    /\ resp' = [p \in Procs |-> NoResponse]
    /\ nreads' = 0
    /\ nwrites' = [p \in Procs |-> 0]
    /\ \E stop \in {"SIGINT", "q"} :
          printed' = IF stop = "SIGINT"
                     THEN <<Line("*** Exiting because of SIGNAL \n", << >>)>> ELSE << >>
    /\ UNCHANGED <<file, seen>>

\* An envelope arrives at a worker that has not handled one in this lifetime.
RestartArrival(p) ==
    /\ pc[p] = "idle"
    /\ \E event \in Envelopes : RadnoteBegin(p, event)

RestartNext ==
    \/ \E p \in Procs :
          \/ RestartArrival(p)
          \/ EnsureLoadedLock(p)
          \/ EnsureLoadedUnlock(p)
          \/ RadnoteStoreLock(p)
          \/ RadnoteStoreOpen(p)
          \/ RadnoteStoreWrite(p)
          \/ RadnoteStoreUnlock(p, radFile)
    \/ Restart

SpecRestart == Init /\ [][RestartNext]_vars

----------------------------------------------------------------------------
(* Properties *)

\* Worker p handles a decodable envelope of the radiation notefile.
IsAir(p) == req[p].op = "radnote" /\ req[p].event.ok /\ req[p].event.file = "_air.qo"

\* Worker p handles a decodable envelope of another notefile.
IsOtherKind(p) == req[p].op = "radnote" /\ req[p].event.ok /\ req[p].event.file # "_air.qo"

DeviceOf(p) == req[p].event.device

\* Worker p takes the step that begins the critical section of the update:
\* the lock, the comparison and, if the envelope is accepted, the assignment.
StoreStep(p) == pc[p] = "store" /\ pc'[p] \in {"write", "store_cs"}

\* Worker p takes the step at which os.WriteFile returns.
WriteStep(p) == pc[p] \in {"write", "open"} /\ pc'[p] = "store_cs"

\* Worker p is in the critical section of an update that it has accepted.
Updating(p) == pc[p] \in {"write", "open", "store_cs"} /\ local[p].accepted

\* Worker p takes the step that runs the critical section of ensureLoaded.
LoadStep(p) == pc[p] = "ensure" /\ pc'[p] = "ensure_cs"

\* The file holds exactly the record an envelope leaves for its device.
OnDisk(event) ==
    /\ file.kind = "json"
    /\ event.device \in DOMAIN file.entries
    /\ FromJSON(file.entries[event.device]) = RadEvent(event)

\* C1: once the store is loaded, a device has a stored record exactly when a
\* radiation envelope for it has been received (the record a snapshot carries
\* over counts as received by the process that wrote it), and the stored
\* occurredAt is the largest one received, whatever the order of arrival.
C1_StoredIsMaxSeen ==
    ~radEvents.nil =>
        \A d \in Devices :
            /\ (d \in DOMAIN radEvents.m) <=> (seen[d] >= 0)
            /\ d \in DOMAIN radEvents.m => radEvents.m[d].when = seen[d]

\* C1 witness: an older radiation envelope was handled after a newer one of
\* the same device and the newer one is still the stored record.
C1_Witness ==
    \E p \in Procs :
        /\ pc[p] = "done" /\ IsAir(p) /\ ~local[p].accepted
        /\ DeviceOf(p) \in DOMAIN radEvents.m
        /\ radEvents.m[DeviceOf(p)].when > req[p].event.when
        /\ seen[DeviceOf(p)] = radEvents.m[DeviceOf(p)].when

\* C2: an ingestion whose occurredAt is strictly below the stored one of its
\* device changes neither the mapping nor the file, and writes nothing.
C2_StaleIsNoOp ==
    [][\A p \in Procs :
          (/\ StoreStep(p)
           /\ DeviceOf(p) \in DOMAIN radEvents.m
           /\ req[p].event.when < radEvents.m[DeviceOf(p)].when)
          => /\ radEvents' = radEvents
             /\ file' = file
             /\ nwrites'[p] = 0
             /\ ~local'[p].accepted]_vars

\* C2 witness: a stale envelope has just been through the critical section
\* while the file lags behind the mapping.
C2_Witness ==
    \E p \in Procs :
        /\ pc[p] = "store_cs" /\ ~local[p].accepted /\ nwrites[p] = 0
        /\ radEvents.m[DeviceOf(p)].when > req[p].event.when
        /\ RadEvent(req[p].event) # radEvents.m[DeviceOf(p)]
        /\ ~OnDisk([req[p].event EXCEPT !.when = radEvents.m[DeviceOf(p)].when])

\* C3: while an envelope of another notefile is handled, the file is not
\* written and no loaded record changes, and the answer is 200 with no body.
C3_OtherKindIgnored ==
    [][\A p \in Procs :
          (IsOtherKind(p) /\ req'[p] = req[p] /\ pc'[p] # pc[p])
          => /\ file' = file
             /\ nwrites'[p] = 0
             /\ ~radEvents.nil => radEvents' = radEvents
             /\ pc'[p] \in {"ensure", "ensure_cs", "done"}
             /\ pc'[p] = "done" => resp'[p].status = 200 /\ resp'[p].body = "none"]_vars

\* C3 witness: an envelope of another notefile, newer than the stored record
\* of its device, has been answered and the older record is still stored.
C3_Witness ==
    \E p \in Procs :
        /\ pc[p] = "done" /\ IsOtherKind(p) /\ resp[p].status = 200
        /\ DeviceOf(p) \in DOMAIN radEvents.m
        /\ radEvents.m[DeviceOf(p)].when < req[p].event.when

\* Worker p has returned from an accepted update whose write succeeded.
Stored(p) == pc[p] = "done" /\ IsAir(p) /\ local[p].accepted /\ ~local[p].err

\* C4: when the two workers have each stored an envelope, for two different
\* devices, in requests that ran at the same time, with both writes
\* successful, the mapping and the file hold both records.
C4_NoLostUpdate ==
    \A p, q \in Procs :
        (/\ p # q /\ Stored(p) /\ Stored(q) /\ DeviceOf(p) # DeviceOf(q)
         /\ local[p].overlapped)
        => \A r \in {p, q} :
              /\ DeviceOf(r) \in DOMAIN radEvents.m
              /\ radEvents.m[DeviceOf(r)] = RadEvent(req[r].event)
              /\ OnDisk(req[r].event)

\* C4 witness: both have stored, and one made its update while the request of
\* the other was under way.
C4_Witness ==
    \E p, q \in Procs :
        /\ p # q /\ Stored(p) /\ Stored(q) /\ DeviceOf(p) # DeviceOf(q)
        /\ local[p].overlapped
        /\ OnDisk(req[p].event) /\ OnDisk(req[q].event)

\* C5: when the write of an accepted update has succeeded, then until the
\* lock is released the file is the marshalled whole of the mapping, and
\* decodes back to it.
C5_WriteSyncsFile ==
    \A p \in Procs :
        (pc[p] = "store_cs" /\ local[p].accepted /\ ~local[p].err)
        => /\ radLock = p
           /\ file = JSONFile(Marshal(radEvents.m))
           /\ Unmarshal(file.entries) = radEvents.m

\* C5 witness: the successful write has put on disk the record of another
\* device whose own write had failed.
C5_Witness ==
    \E p, q \in Procs :
        /\ pc[p] = "store_cs" /\ local[p].accepted /\ ~local[p].err
        /\ pc[q] = "done" /\ IsAir(q) /\ local[q].accepted /\ local[q].err
        /\ DeviceOf(p) # DeviceOf(q)
        /\ OnDisk(req[q].event)

\* C6: an accepted update whose write fails leaves the new record in the
\* mapping, during the critical section and when the handler returns; every
\* update compares its timestamp with the record in the mapping, and a
\* full-list query marshals the mapping, not the file.
C6_NoRollback ==
    [][\A p \in Procs :
          /\ Updating(p)
             => /\ DeviceOf(p) \in DOMAIN radEvents.m
                /\ radEvents.m[DeviceOf(p)] = RadEvent(req[p].event)
          /\ (WriteStep(p) /\ local'[p].err)
             => /\ local'[p].accepted
                /\ DeviceOf(p) \in DOMAIN radEvents'.m
                /\ radEvents'.m[DeviceOf(p)] = RadEvent(req[p].event)
          /\ (pc[p] = "store_cs" /\ local[p].accepted /\ local[p].err /\ pc'[p] = "done")
             => /\ DeviceOf(p) \in DOMAIN radEvents'.m
                /\ radEvents'.m[DeviceOf(p)] = RadEvent(req[p].event)
          /\ StoreStep(p)
             => local'[p].accepted
                  = (\/ DeviceOf(p) \notin DOMAIN radEvents.m
                     \/ req[p].event.when >= radEvents.m[DeviceOf(p)].when)
          /\ (pc[p] = "list" /\ pc'[p] = "list_cs")
             => local'[p].list = Marshal(radEvents.m)]_vars

\* C6 witness: a write failed, the file does not hold the record, and a later
\* full-list query has returned it.
C6_Witness ==
    \E p, q \in Procs :
        /\ pc[p] = "done" /\ IsAir(p) /\ local[p].accepted /\ local[p].err
        /\ ~OnDisk(req[p].event)
        /\ pc[q] = "done" /\ req[q].op = "radiation" /\ resp[q].body = "list"
        /\ DeviceOf(p) \in DOMAIN resp[q].list
        /\ FromJSON(resp[q].list[DeviceOf(p)]) = RadEvent(req[p].event)

\* C7: the file is read at most once, by the first ensureLoaded; a later
\* ensureLoaded reads nothing and changes no record.
C7_LoadedOnce ==
    [][/\ nreads' <= 1
       /\ radEvents'.nil <=> nreads' = 0
       /\ \A p \in Procs :
             (LoadStep(p) /\ ~radEvents.nil) => (radEvents' = radEvents /\ nreads' = nreads)
       /\ \A p \in Procs :
             (LoadStep(p) /\ radEvents.nil) => nreads' = 1]_vars

\* C7 witness: ensureLoaded has run again, next to a waiting ingestion, over a
\* store that holds a record the file does not.
C7_Witness ==
    \E p, q \in Procs :
        /\ pc[p] = "ensure_cs" /\ nreads = 1
        /\ pc[q] = "store" /\ IsAir(q)
        /\ \E d \in DOMAIN radEvents.m : Carried(file, d) # radEvents.m[d].when

\* C8: the first load of a missing file leaves an empty, non-nil map and
\* prints nothing; of a torn file, an empty non-nil map; and an envelope for a
\* device the store does not hold is then accepted.
C8_LoadFailureStartsEmpty ==
    [][\A p \in Procs :
          /\ (LoadStep(p) /\ radEvents.nil /\ file.kind = "missing")
             => radEvents' = [nil |-> FALSE, m |-> EmptyMap] /\ printed' = << >>
          /\ (LoadStep(p) /\ radEvents.nil /\ file.kind = "torn")
             => radEvents' = [nil |-> FALSE, m |-> EmptyMap]
          /\ (StoreStep(p) /\ DeviceOf(p) \notin DOMAIN radEvents.m)
             => /\ ~radEvents.nil
                /\ local'[p].accepted
                /\ DeviceOf(p) \in DOMAIN radEvents'.m
                /\ radEvents'.m[DeviceOf(p)] = RadEvent(req[p].event)]_vars

\* C8 witness: the file is still missing (no write has succeeded) and an
\* envelope has been accepted into the store that was loaded from it.
C8_Witness ==
    \E p \in Procs :
        /\ file.kind = "missing" /\ nreads = 1
        /\ pc[p] = "done" /\ IsAir(p) /\ local[p].accepted
        /\ radEvents.m = [d \in {DeviceOf(p)} |-> RadEvent(req[p].event)]

QueryLat(p) == ParseFloat(req[p].query.lat).v

QueryLon(p) == ParseFloat(req[p].query.lon).v

BothZero(e) == F64Eq(e.best_lat, F64Zero) /\ F64Eq(e.best_lon, F64Zero)

OneZero(e) == F64Eq(e.best_lat, F64Zero) # F64Eq(e.best_lon, F64Zero)

\* Worker p has answered a geofence check (a GET with lat and lon of the
\* earlier handler).
IsGeofence(p) == pc[p] = "done" /\ req[p].op = "GET" /\ resp[p].body = "feed"

\* A record that must raise the warning for the geofence check of worker p.
InWarningRegion(e, p) ==
    /\ F64LessEq(config.RadnoteWarningLevelUsv, e.usv)
    /\ ~BothZero(e)
    /\ F64LessEq(DistanceTo(e, QueryLat(p), QueryLon(p)), config.RadnoteWarningRegionMeters)

\* C9: the geofence check answers true exactly when some record has a dose
\* rate >= the threshold, a location other than (0,0) and a distance to the
\* query point <= the region radius; so it answers false on an empty store.
C9_WarningIffQualifying ==
    \A p \in Procs :
        IsGeofence(p)
        => (resp[p].warning <=> \E d \in DOMAIN radEvents.m : InWarningRegion(radEvents.m[d], p))

\* C9 witness: with a threshold and a region loaded from the configuration,
\* the warning is raised by one record alone, which sits exactly on the
\* threshold and exactly on the boundary of the region, next to a record
\* above the threshold that has no location.
C9_Witness ==
    \E p \in Procs :
        /\ IsGeofence(p) /\ resp[p].warning
        /\ F64Less(F64Zero, config.RadnoteWarningRegionMeters)
        /\ \E d \in DOMAIN radEvents.m :
              /\ F64Eq(radEvents.m[d].usv, config.RadnoteWarningLevelUsv)
              /\ F64Eq(DistanceTo(radEvents.m[d], QueryLat(p), QueryLon(p)),
                       config.RadnoteWarningRegionMeters)
              /\ \A x \in DOMAIN radEvents.m \ {d} : ~InWarningRegion(radEvents.m[x], p)
        /\ \E x \in DOMAIN radEvents.m :
              /\ F64LessEq(config.RadnoteWarningLevelUsv, radEvents.m[x].usv)
              /\ BothZero(radEvents.m[x])

\* Worker p has answered a radius query through generateJsonFeed: with the
\* feed, or with the status 500 and no body when the result cannot be
\* marshalled.
Aggregated(p) == pc[p] = "done" /\ req[p].op = "radiation" /\ resp[p].body # "list"

IsFeed(p) == Aggregated(p) /\ resp[p].body = "feed"

\* The records at a distance from the query point of worker p within r.
Within(p, r) ==
    {d \in DOMAIN radEvents.m :
        F64LessEq(DistanceTo(radEvents.m[d], QueryLat(p), QueryLon(p)), r)}

\* The radius of the query of worker p, 10 meters when it is given as 0.
QueryRadius(p) ==
    LET r == ParseFloat(req[p].query.radius_meters).v
    IN  IF F64Eq(r, F64Zero) THEN F64FromInt(10) ELSE r

\* The devices whose records the aggregate of worker p has to cover.
InRadius(p) == {d \in Within(p, QueryRadius(p)) : ~BothZero(radEvents.m[d])}

\* The sum of the dose rates of the devices of S, added in some order.
RECURSIVE SumUsv(_)
SumUsv(S) ==
    IF S = {} THEN F64Zero
    ELSE LET d == CHOOSE x \in S : TRUE IN F64Add(SumUsv(S \ {d}), radEvents.m[d].usv)

\* C10: over the located records within the radius of the query point, the
\* aggregate has their number as count and their smallest and largest dose
\* rates as min and max; the feed reports these, and their sum over their
\* number as avg.
C10_AggregateCorrect ==
    \A p \in Procs :
        Aggregated(p) =>
            LET S == InRadius(p)
                a == local[p].agg
            IN  /\ a.count = F64FromInt(Cardinality(S))
                /\ S # {} =>
                     /\ \E d \in S : F64Eq(radEvents.m[d].usv, a.min)
                     /\ \A d \in S : F64LessEq(a.min, radEvents.m[d].usv)
                     /\ \E d \in S : F64Eq(radEvents.m[d].usv, a.max)
                     /\ \A d \in S : F64LessEq(radEvents.m[d].usv, a.max)
                /\ IsFeed(p) =>
                     /\ resp[p].feed.count = a.count
                     /\ resp[p].feed.usv_min = a.min
                     /\ resp[p].feed.usv_max = a.max
                     /\ S # {} => resp[p].feed.usv_avg
                                    = F64Quo(SumUsv(S), F64FromInt(Cardinality(S)))

\* C10 witness: a feed over several records with different dose rates, all
\* below 0, while the store also holds a record outside the aggregate.
C10_Witness ==
    \E p \in Procs :
        /\ IsFeed(p)
        /\ F64LessEq(F64FromInt(2), resp[p].feed.count)
        /\ F64Less(resp[p].feed.usv_min, resp[p].feed.usv_max)
        /\ F64Less(resp[p].feed.usv_max, F64Zero)
        /\ InRadius(p) # DOMAIN radEvents.m

\* The query of worker p has finite numbers for lat, lon and radius.
FiniteQuery(p) ==
    \A f \in {"lat", "lon", "radius_meters"} :
        req[p].query[f].kind = "num" /\ req[p].query[f].v.cls = "fin"

\* C11: when no located record lies within the radius, the aggregate has
\* count 0, min 0 and max 0, and the feed of a finite query reports them
\* with avg 0, which is no result of a division by 0 (that would be NaN, and
\* no feed could be sent).
C11_EmptyAggregate ==
    \A p \in Procs :
        (Aggregated(p) /\ InRadius(p) = {}) =>
            /\ F64Eq(local[p].agg.count, F64Zero)
            /\ F64Eq(local[p].agg.min, F64Zero)
            /\ F64Eq(local[p].agg.max, F64Zero)
            /\ FiniteQuery(p) =>
                  /\ IsFeed(p) /\ resp[p].status = 200
                  /\ F64Eq(resp[p].feed.count, F64Zero)
                  /\ F64Eq(resp[p].feed.usv_min, F64Zero)
                  /\ F64Eq(resp[p].feed.usv_max, F64Zero)
                  /\ F64Eq(resp[p].feed.usv_avg, F64Zero)

\* C11 witness: a feed over a store that holds located records with dose
\* rates other than 0, none of them within the radius.
C11_Witness ==
    \E p \in Procs :
        /\ IsFeed(p) /\ InRadius(p) = {} /\ F64Eq(resp[p].feed.count, F64Zero)
        /\ \E d \in DOMAIN radEvents.m :
              /\ ~F64Eq(radEvents.m[d].best_lat, F64Zero)
              /\ ~F64Eq(radEvents.m[d].usv, F64Zero)

\* The records within the region whose dose rate reaches the threshold.
Hot(p) ==
    {d \in Within(p, config.RadnoteWarningRegionMeters) :
        F64LessEq(config.RadnoteWarningLevelUsv, radEvents.m[d].usv)}

\* C12: a record at (0,0) never raises the warning and is never counted,
\* whatever its dose rate, the query point and the radius; a record with
\* exactly one coordinate 0 raises the warning and is counted like any other.
C12_ZeroZeroExcluded ==
    \A p \in Procs :
        /\ IsGeofence(p) =>
              /\ resp[p].warning => \E d \in Hot(p) : ~BothZero(radEvents.m[d])
              /\ (\E d \in Hot(p) : OneZero(radEvents.m[d])) => resp[p].warning
        /\ Aggregated(p) =>
              LET near == Within(p, QueryRadius(p))
              IN  local[p].agg.count
                    = F64FromInt(Cardinality(near)
                                 - Cardinality({d \in near : BothZero(radEvents.m[d])}))

\* C12 witness: within the radius lie a record at (0,0) with a dose rate other
\* than 0, which is not counted, and a record with one coordinate 0, which is.
C12_Witness ==
    \E p \in Procs :
        /\ IsFeed(p) /\ F64Eq(resp[p].feed.count, One)
        /\ \E d, x \in Within(p, resp[p].feed.radius_meters) :
              /\ BothZero(radEvents.m[d]) /\ ~F64Eq(radEvents.m[d].usv, F64Zero)
              /\ OneZero(radEvents.m[x])

\* Worker p has answered a radius query: lat and lon are given, are finite
\* numbers and are not both 0.
IsRadiusQuery(p) ==
    /\ pc[p] = "done" /\ req[p].op = "radiation"
    /\ req[p].query.lat.kind = "num" /\ req[p].query.lon.kind = "num"
    /\ req[p].query.lat.v.cls = "fin" /\ req[p].query.lon.v.cls = "fin"
    /\ ~(F64Eq(req[p].query.lat.v, F64Zero) /\ F64Eq(req[p].query.lon.v, F64Zero))

\* C13: a radius query whose radius_meters is 0 or is not given is answered
\* with the aggregate over the default radius of 10 meters.
C13_DefaultRadius ==
    \A p \in Procs :
        (IsRadiusQuery(p) /\ req[p].query.radius_meters \in {NoParam, Num(F64Zero)})
        => /\ resp[p].body = "feed"
           /\ F64Eq(resp[p].feed.radius_meters, F64FromInt(10))
           /\ resp[p].feed.count
                = F64FromInt(Cardinality({d \in Within(p, F64FromInt(10)) :
                                            ~BothZero(radEvents.m[d])}))

\* C14: an ingestion request whose envelope cannot be decoded is answered
\* with status 500 and the error message, and leaves the mapping and the
\* file as they were.
C14_UndecodableFails ==
    [][\A p \in Procs :
          (/\ req[p].op = "radnote" /\ ~req[p].event.ok
           /\ pc[p] = "ensure_cs" /\ pc'[p] = "done")
          => /\ resp'[p].status = 500
             /\ resp'[p].body = "error"
             /\ radEvents' = radEvents
             /\ file' = file]_vars

\* C16: the response to a radiation envelope is 200 with no body whether or
\* not it was accepted and whether its write succeeded or failed; and an
\* accepted update has made exactly one write, any other none.
C16_WriteFailureHidden ==
    \A p \in Procs :
        /\ (pc[p] = "done" /\ IsAir(p)) => resp[p] = [NoResponse EXCEPT !.status = 200]
        /\ (pc[p] \in {"store_cs", "done"} /\ IsAir(p))
              => nwrites[p] = IF local[p].accepted THEN 1 ELSE 0

\* The step has printed a line of the given format.
Printed(text) == \E i \in DOMAIN printed : printed[i].text = text

\* C16 witness: an accepted update whose write failed has been answered, the
\* failure was printed, and the file does not hold the record.
C16_Witness ==
    \E p \in Procs :
        /\ pc[p] = "done" /\ IsAir(p) /\ local[p].accepted /\ local[p].err
        /\ nwrites[p] = 1
        /\ resp[p].status = 200
        /\ Printed("radnote: can't store %s: %s\n")
        /\ ~OnDisk(req[p].event)

\* Worker p handles a query with a parameter that is text but no number.
IsNonNumeric(p) ==
    /\ req[p].op = "radiation"
    /\ "text" \in {req[p].query.lat.kind, req[p].query.lon.kind,
                   req[p].query.radius_meters.kind}

\* Worker p handles a query with a parameter that strconv.ParseFloat rejects,
\* as no number or as a number out of range.
IsRejected(p) ==
    /\ req[p].op = "radiation"
    /\ {req[p].query.lat.kind, req[p].query.lon.kind, req[p].query.radius_meters.kind}
          \cap {"text", "range"} # {}

\* C15 as stated: a query with a non-numeric lat, lon or radius is answered
\* with a failure status, and nothing is mutated.
C15_NonNumericFails ==
    [][\A p \in Procs :
          (IsNonNumeric(p) /\ req'[p] = req[p] /\ pc'[p] # pc[p])
          => /\ file' = file
             /\ ~radEvents.nil => radEvents' = radEvents
             /\ pc'[p] = "done" => resp'[p].status >= 400]_vars

\* C15 as amended: a query with a lat, lon or radius that the parser rejects
\* is answered with status 200 and the full list of records, read under the
\* lock, and nothing is mutated (but for the first-use load).
C15_NonNumericListed ==
    [][\A p \in Procs :
          (IsRejected(p) /\ req'[p] = req[p] /\ pc'[p] # pc[p])
          => /\ file' = file
             /\ nwrites' = nwrites
             /\ ~radEvents.nil => radEvents' = radEvents
             /\ pc'[p] \in {"ensure", "ensure_cs", "list", "list_cs", "done"}
             /\ pc'[p] = "list_cs" => local'[p].list = Marshal(radEvents.m)
             /\ pc'[p] = "done"
                  => /\ resp'[p].status = 200
                     /\ resp'[p].body = "list"
                     /\ resp'[p].list = local[p].list]_vars

\* C15 witness: a query with numeric lat and lon and a non-numeric radius has
\* been answered with the list of a store that holds a record.
C15_Witness ==
    \E p \in Procs :
        /\ pc[p] = "done" /\ IsNonNumeric(p)
        /\ req[p].query.lat = Num(One) /\ req[p].query.lon = Num(One)
        /\ resp[p].status = 200 /\ resp[p].body = "list"
        /\ resp[p].list # EmptyMap

\* Worker p is between a Lock and its Unlock.
InCriticalSection(p) ==
    pc[p] \in {"ensure_cs", "write", "open", "store_cs", "scan_cs", "debug_cs", "list_cs"}

\* The step reads or writes the mapping or the file on behalf of worker p:
\* the mapping, the file or the counts of reads and writes change, or the
\* worker gets what it has read (its aggregate, list, decision or write
\* error), or it enters a critical section.
Touches(p) ==
    /\ pc'[p] # pc[p]
    /\ \/ InCriticalSection(p)'
       \/ radEvents' # radEvents
       \/ file' # file
       \/ nreads' # nreads
       \/ nwrites'[p] > nwrites[p]
       \/ /\ pc[p] \notin {"idle", "done"}
          /\ \E f \in {"err", "agg", "list", "warning", "accepted"} : local'[p][f] # local[p][f]

\* C18: a step that reads or writes the mapping or the file is a step of the
\* critical section of one worker, which holds the lock after it and either
\* held it before or took it free, with no worker inside a critical section
\* then; a worker is inside a critical section exactly when it holds the
\* lock, so at most one is; and while one holds the lock the mapping and the
\* file change by its own steps only and no other worker reads them, so
\* every scan and list read, which is one step that takes the free lock,
\* sees the mapping as it stood between two complete updates.
C18_UnderLock ==
    [][/\ \A p \in Procs :
            /\ Touches(p) => (radLock \in {0, p} /\ radLock' = p)
            /\ (Touches(p) /\ radLock = 0) => \A q \in Procs : ~InCriticalSection(q)
            /\ (Touches(p) /\ pc'[p] \in {"scan_cs", "list_cs"})
                  => (radLock = 0 /\ radEvents' = radEvents /\ file' = file)
            /\ InCriticalSection(p)' <=> (radLock' = p)
            /\ (radLock = p /\ (radEvents' # radEvents \/ file' # file))
                  => (pc[p] \in {"write", "open"} /\ pc'[p] # pc[p])
       /\ \A p, q \in Procs : (InCriticalSection(p)' /\ InCriticalSection(q)') => p = q
       /\ radLock # 0 => radEvents' = radEvents]_vars

\* C18 witness: a list read holds the lock and has the mapping as it stands,
\* while the other worker waits at the lock with a radiation envelope that
\* would replace a record.
C18_Witness ==
    \E p, q \in Procs :
        /\ pc[p] = "list_cs" /\ radLock = p
        /\ local[p].list = Marshal(radEvents.m) /\ local[p].list # EmptyMap
        /\ pc[q] = "store" /\ IsAir(q)
        /\ DeviceOf(q) \in DOMAIN radEvents.m
        /\ req[q].event.when >= radEvents.m[DeviceOf(q)].when

\* C19: a radiation envelope whose occurredAt equals the stored one of its
\* device, or whose device has no stored record, is accepted: its record
\* (location and dose rate) becomes the stored one, the other records stay,
\* and the whole mapping is written to the snapshot file once, under the
\* same lock; when the write succeeds the file holds the new mapping.
C19_EqualReplaces ==
    [][/\ \A p \in Procs :
          (/\ StoreStep(p)
           /\ \/ DeviceOf(p) \notin DOMAIN radEvents.m
              \/ req[p].event.when = radEvents.m[DeviceOf(p)].when)
          => /\ local'[p].accepted
             /\ DOMAIN radEvents'.m = DOMAIN radEvents.m \cup {DeviceOf(p)}
             /\ radEvents'.m[DeviceOf(p)] = RadEvent(req[p].event)
             /\ \A d \in DOMAIN radEvents.m \ {DeviceOf(p)} : radEvents'.m[d] = radEvents.m[d]
             /\ pc'[p] = "write" /\ nwrites'[p] = 0
       /\ \A p \in Procs :
             /\ (pc[p] = "write" /\ pc'[p] # pc[p]) => nwrites'[p] = 1
             /\ (pc[p] = "open" /\ pc'[p] # pc[p]) => nwrites'[p] = 1
             /\ WriteStep(p)
                => /\ radEvents' = radEvents
                   /\ radEvents.m[DeviceOf(p)] = RadEvent(req[p].event)
                   /\ ~local'[p].err => file' = JSONFile(Marshal(radEvents.m))]_vars

\* C19 witness: two radiation envelopes of one device with the same occurredAt
\* and different readings were both accepted; the later one is the stored
\* record and the file holds it.
C19_Witness ==
    \E p, q \in Procs :
        /\ pc[p] = "store_cs" /\ local[p].accepted /\ ~local[p].err
        /\ pc[q] = "done" /\ IsAir(q) /\ local[q].accepted
        /\ DeviceOf(q) = DeviceOf(p)
        /\ req[q].event.when = req[p].event.when
        /\ RadEvent(req[q].event) # RadEvent(req[p].event)
        /\ radEvents.m[DeviceOf(p)] = RadEvent(req[p].event)
        /\ OnDisk(req[p].event)

\* Worker q has handled the envelope that worker p had handled just before,
\* with no request between the two.
Redelivered(p, q) ==
    /\ p # q
    /\ pc[p] = "done" /\ req[p].op = "radnote"
    /\ pc[q] = "done" /\ local[q].latest
    /\ req[q] = req[p]

\* C20 as stated: the second of two deliveries in a row of one envelope
\* leaves the mapping and the file as the first left them.
C20_Idempotent ==
    \A p, q \in Procs :
        Redelivered(p, q)
        => (radEvents = local[q].prior.events /\ file = local[q].prior.file)

\* C20, amended: the second delivery leaves the mapping as the first left it
\* and is accepted or ignored as the first was.  An ignored envelope leaves
\* the file alone both times.  An accepted envelope is written again: after
\* the second delivery the file is the snapshot of the mapping if the second
\* write succeeded, whatever the first write did, and otherwise the file the
\* first delivery left (it could not be opened), a truncated one (the write
\* was cut short) or the snapshot of the mapping (only Close failed).
C20_IdempotentInMemory ==
    \A p, q \in Procs :
        Redelivered(p, q)
        => /\ radEvents = local[q].prior.events
           /\ local[q].accepted = local[p].accepted
           /\ nwrites[q] = nwrites[p]
           /\ ~local[q].accepted => (file = local[q].prior.file /\ nwrites[q] = 0)
           /\ (local[q].accepted /\ ~local[q].err) => file = JSONFile(Marshal(radEvents.m))
           /\ (local[q].accepted /\ local[q].err)
                 => file \in {local[q].prior.file, TornFile, JSONFile(Marshal(radEvents.m))}

\* C20 witness: an accepted radiation envelope has been delivered twice in a
\* row; the first write failed and the second succeeded, so the mapping is
\* the one the first delivery left and the file is not.
C20_Witness ==
    \E p, q \in Procs :
        /\ Redelivered(p, q) /\ IsAir(q)
        /\ local[p].accepted /\ local[q].accepted
        /\ local[p].err /\ ~local[q].err
        /\ nwrites[p] = 1 /\ nwrites[q] = 1
        /\ radEvents = local[q].prior.events
        /\ radEvents.m[DeviceOf(q)] = RadEvent(req[q].event)
        /\ file = JSONFile(Marshal(radEvents.m))
        /\ file # local[q].prior.file

\* C21: whatever the order in which the range over the map visits the
\* records, the geofence check gives the answer it gave, and the aggregate
\* has the count, min and max it reported.
C21_OrderIrrelevant ==
    \A p \in Procs :
        /\ Aggregated(p) =>
              \A order \in Orders(DOMAIN radEvents.m) :
                  LET a == ScanFeed(radEvents.m, order, QueryLat(p), QueryLon(p),
                                    QueryRadius(p), ZeroAgg)
                  IN  /\ a.count = local[p].agg.count
                      /\ a.min = local[p].agg.min
                      /\ a.max = local[p].agg.max
        /\ IsGeofence(p) =>
              \A order \in Orders(DOMAIN radEvents.m) :
                  locationInWarningRegion(radEvents.m, order, QueryLat(p), QueryLon(p), config)
                    = resp[p].warning

\* C21 witness: a feed over three records with three different dose rates,
\* which the range can visit in six orders.
C21_Witness ==
    \E p \in Procs :
        /\ IsFeed(p)
        /\ resp[p].feed.count = F64FromInt(Cardinality(ScanDevices))
        /\ Cardinality(Orders(DOMAIN radEvents.m)) > Cardinality(ScanDevices)
        /\ \A d, e \in DOMAIN radEvents.m : d # e => radEvents.m[d].usv # radEvents.m[e].usv
        /\ F64Less(resp[p].feed.usv_min, F64Zero) /\ F64Less(F64Zero, resp[p].feed.usv_max)

\* Both workers have measured: one the distance from its point to the
\* other's, the other the same with the two points swapped.
Measured == \A p \in Procs : pc[p] = "done" /\ req[p].op = "meters"

\* C22: the distance is 0 for two identical points, and the identical value
\* when the two points are swapped.
C22_Symmetric ==
    Measured =>
        \A p \in Procs : \A q \in Procs \ {p} :
            /\ req[p].query = req[q].query => F64Eq(local[p].meters, F64Zero)
            /\ F64Eq(local[p].meters, local[q].meters)

\* C23: an accepted update for device d leaves the record of every other
\* device as it was and adds no key but d, so the mapping holds one record
\* for each device that has one and none for any other.
C23_OnlyOwnRecord ==
    [][\A p \in Procs :
          (StoreStep(p) /\ local'[p].accepted)
          => /\ \A d \in Devices \ {DeviceOf(p)} :
                   /\ d \in DOMAIN radEvents'.m <=> d \in DOMAIN radEvents.m
                   /\ d \in DOMAIN radEvents.m => radEvents'.m[d] = radEvents.m[d]
             /\ DeviceOf(p) \in DOMAIN radEvents'.m
             /\ DOMAIN radEvents'.m \subseteq Devices
             /\ Cardinality(DOMAIN radEvents'.m)
                   = Cardinality(DOMAIN radEvents.m \cup {DeviceOf(p)})]_vars

\* C23 witness: an update stored the record of its device while the mapping
\* held a different record of another device, which is still there.
C23_Witness ==
    \E p, q \in Procs :
        /\ pc[p] = "store_cs" /\ local[p].accepted
        /\ pc[q] = "done" /\ IsAir(q) /\ local[q].accepted
        /\ DeviceOf(q) # DeviceOf(p)
        /\ radEvents.m[DeviceOf(q)] = RadEvent(req[q].event)
        /\ radEvents.m[DeviceOf(p)] = RadEvent(req[p].event)
        /\ RadEvent(req[q].event) # RadEvent(req[p].event)

\* The float64 after x, for a finite x > 0.
F64Up(x) ==
    IF x.lo + 1 < Limb THEN [x EXCEPT !.lo = @ + 1]
    ELSE IF x.hi + 1 < Limb \div 2 THEN [x EXCEPT !.hi = @ + 1, !.lo = 0]
    ELSE [x EXCEPT !.e = @ + 1, !.hi = Limb \div 4, !.lo = 0]

\* The n-th float64 after x.
RECURSIVE F64UpBy(_, _)
F64UpBy(x, n) == IF n = 0 THEN x ELSE F64UpBy(F64Up(x), n - 1)

\* C24 as stated: in a feed whose count is above 0, min <= avg <= max.
C24_AvgBetween ==
    \A p \in Procs :
        (IsFeed(p) /\ F64Less(F64Zero, resp[p].feed.count))
        => /\ F64LessEq(resp[p].feed.usv_min, resp[p].feed.usv_avg)
           /\ F64LessEq(resp[p].feed.usv_avg, resp[p].feed.usv_max)

\* C24, amended: in an aggregate whose count is above 0, min <= max; in the
\* feed avg lies between them up to the rounding of the sum and of the
\* division (for dose rates >= 0 it is no more than count float64 values
\* outside); and when the sum has overflowed to an infinity no feed is sent,
\* the answer is the status 500 with no body.
C24_AvgBetweenUpToRounding ==
    \A p \in Procs :
        (Aggregated(p) /\ F64Less(F64Zero, local[p].agg.count))
        => LET a == local[p].agg
               f == resp[p].feed
               n == F64ToInt(a.count)
           IN  /\ F64LessEq(a.min, a.max)
               /\ IsFeed(p) =>
                     /\ f.count = a.count /\ f.usv_min = a.min /\ f.usv_max = a.max
                     /\ F64LessEq(f.usv_min, F64UpBy(f.usv_avg, n))
                     /\ F64LessEq(f.usv_avg, F64UpBy(f.usv_max, n))
               /\ IsFeed(p) <=> (FiniteQuery(p) /\ ~IsInf(a.sum))
               /\ ~IsFeed(p) => (resp[p].status = 500 /\ resp[p].body = "none")

\* C24 witness: a feed over three records with the same dose rate whose
\* average is above that dose rate.
C24_Witness ==
    \E p \in Procs :
        /\ IsFeed(p)
        /\ resp[p].feed.count = F64FromInt(Cardinality(ScanDevices))
        /\ F64Eq(resp[p].feed.usv_min, resp[p].feed.usv_max)
        /\ F64Less(resp[p].feed.usv_max, resp[p].feed.usv_avg)

\* Every snapshot write that the running process has made succeeded (each
\* worker's err is that of the one write it made in this lifetime, if it made
\* one and os.WriteFile has returned).
EveryWriteSucceeded == \A p \in Procs : ~local[p].err

\* The process is stopped while it holds a mapping.
RestartStep == ~radEvents.nil /\ radEvents'.nil

\* The first load of a process.
FirstLoadStep == radEvents.nil /\ ~radEvents'.nil

\* What the first load of the next process yields from the file the stopped
\* process leaves.
Restored == LoadFile(file', radFile).events.m

\* C25: when a process that holds a mapping and whose snapshot writes all
\* succeeded is restarted, the file it leaves decodes to the mapping it held
\* (same devices, and for each the same occurredAt, location and dose rate),
\* and the first load of the new process yields what the file decodes to; so
\* the stored occurredAt an envelope is compared with is the same as before.
C25_RestartRestores ==
    [][/\ (RestartStep /\ EveryWriteSucceeded) =>
            /\ file' = file
            /\ DOMAIN Restored = DOMAIN radEvents.m
            /\ \A d \in DOMAIN radEvents.m :
                  \A f \in Fields : Restored[d][f] = radEvents.m[d][f]
       /\ FirstLoadStep =>
            /\ radEvents'.m = LoadFile(file, radFile).events.m
            /\ file' = file
            /\ \A d \in DOMAIN radEvents'.m : Carried(file, d) = radEvents'.m[d].when
      ]_vars

\* C25, amended: the first load of a new process yields what the file
\* decodes to, and when a process that holds a mapping and whose snapshot
\* writes all succeeded is stopped, that is: the mapping it held, field by
\* field, if no update stood between its assignment to the map and the return
\* of os.WriteFile; the mapping without that assignment (the records of the
\* other devices, and for the device of the update no record or one that is
\* not newer) if an update stood between its assignment and os.WriteFile; and
\* the empty mapping, with all records lost, if an update stood inside
\* os.WriteFile, which had emptied the file.
C25_RestartRestoresWritten ==
    [][/\ (RestartStep /\ EveryWriteSucceeded) =>
            /\ file' = file
            /\ (\A p \in Procs : pc[p] \notin {"write", "open"})
                  => /\ DOMAIN Restored = DOMAIN radEvents.m
                     /\ \A d \in DOMAIN radEvents.m :
                           \A f \in Fields : Restored[d][f] = radEvents.m[d][f]
            /\ \A p \in Procs :
                  /\ pc[p] = "write"
                        => /\ DOMAIN radEvents.m \ {DeviceOf(p)} \subseteq DOMAIN Restored
                           /\ DOMAIN Restored \subseteq DOMAIN radEvents.m
                           /\ \A d \in DOMAIN Restored \ {DeviceOf(p)} :
                                 \A f \in Fields : Restored[d][f] = radEvents.m[d][f]
                           /\ DeviceOf(p) \in DOMAIN Restored
                                 => Restored[DeviceOf(p)].when <= radEvents.m[DeviceOf(p)].when
                  /\ pc[p] = "open"
                        => /\ file.kind = "torn"
                           /\ Restored = EmptyMap
                           /\ DeviceOf(p) \in DOMAIN radEvents.m
       /\ FirstLoadStep =>
            /\ radEvents'.m = LoadFile(file, radFile).events.m
            /\ file' = file
            /\ \A d \in DOMAIN radEvents'.m : Carried(file, d) = radEvents'.m[d].when
            /\ file.kind = "torn" => (radEvents'.m = EmptyMap /\ printed' # << >>)
      ]_vars

\* C25 witness: in a lifetime in which nothing has been written, an envelope
\* was rejected as older than the record of a device that no initial snapshot
\* carries: the record was stored and written by an earlier lifetime and came
\* back, with its occurredAt, through the first load after the restart.
C25_Witness ==
    \E p \in Procs :
        /\ pc[p] = "done" /\ IsAir(p) /\ ~local[p].accepted
        /\ DeviceOf(p) = "dev:b"
        /\ "dev:b" \in DOMAIN radEvents.m
        /\ radEvents.m["dev:b"].when > req[p].event.when
        /\ ~F64Eq(radEvents.m["dev:b"].usv, F64Zero)
        /\ nreads = 1
        /\ \A q \in Procs : nwrites[q] = 0 /\ ~local[q].accepted /\ ~local[q].err
        /\ file = JSONFile(Marshal(radEvents.m))

\* C17 (its safety half): a worker that is not handling a request does not
\* hold the lock, so every request that took the lock released it before it
\* returned.
C17_LockReleased ==
    \A p \in Procs : pc[p] \in {"idle", "done"} => radLock # p

====
